---------------------------- MODULE Spec2Model ----------------------------
(***************************************************************************)
(* A model of the fraud-pattern DetectionEngine                            *)
(* (src/src/services/detectionEngine.ts): the graph index built by the     *)
(* constructor, the three detectors (cycles, smurfing, shell chains), the  *)
(* ring registry addRing and the result assembled by analyze().            *)
(*                                                                         *)
(* Conventions.                                                            *)
(*  - An account id is a natural number: the collation rank of a           *)
(*    fixed-width id string ("ACC_007"), so that localeCompare on the      *)
(*    ","-joined ids is the element-wise comparison of the ranks.          *)
(*  - A JavaScript Map / Set is modelled with its insertion order, which   *)
(*    is its iteration order: a Map is [keys: sequence, val: function],    *)
(*    a Set is a duplicate-free sequence.                                  *)
(*  - Time values are epoch milliseconds.  NaN is a reserved value outside *)
(*    the range of every epoch value and difference formed here; all       *)
(*    comparisons go through operators that treat it as IEEE-754 does.     *)
(*  - A risk is held exactly, in units of 1/1200 (RiskDen); a score is     *)
(*    held in tenths (85.0 is 850).                                        *)
(***************************************************************************)
EXTENDS Integers, Sequences, FiniteSets, TLC

VARIABLES
    batch,              \* the caller's records as they were handed over (ghost)
    transactions,       \* this.transactions: the caller's array, shared
    adjacency,          \* this.adjacency : Map<string, Set<string>>
    accountTx,          \* this.accountTx : Map<string, Transaction[]>
    pc,                 \* position of the engine inside constructor / analyze()
    suspiciousMap,      \* analyze: Map<string, SuspiciousAccount>, insertion order
    fraudRings,         \* analyze: FraudRing[]
    ringCounter,        \* analyze: let ringCounter = 1
    cycleAccounts,      \* analyze: Set<string> of confirmed cycle members
    pending,            \* the detector result the current for-of loop walks
    result,             \* the DetectionResult returned, or the value None
    arg,                \* the arguments of a function called on its own
    ret,                \* <<v>> once the function called on its own returned v
    other,              \* a second DetectionEngine and the analysis it runs
    app                 \* the useState values of App and its requests in flight

vars == <<batch, transactions, adjacency, accountTx, pc, suspiciousMap,
          fraudRings, ringCounter, cycleAccounts, pending, result, arg, ret,
          other, app>>

None == [none |-> TRUE]

(***************************************************************************)
(* Generic helpers                                                         *)
(***************************************************************************)
Range(s) == {s[i] : i \in 1..Len(s)}

Reverse(s) == [i \in 1..Len(s) |-> s[Len(s) + 1 - i]]

Min2(a, b) == IF a <= b THEN a ELSE b

Max2(a, b) == IF a >= b THEN a ELSE b

\* A loop of the program over a list is an operator over an index range
\* lo..hi that runs the loop body on lo, lo + 1, ..., hi in this order,
\* handing the loop's variables from one turn to the next.  The range is
\* split in halves only to keep the depth of evaluation logarithmic.
Mid(lo, hi) == (lo + hi) \div 2

\* TLC evaluates an operator's argument when it is first used.  A loop tests
\* Evaluated on what its first half returns, which is always true, so that
\* the second half starts from a value.
Evaluated(v) == v = v

\* Set.add on an insertion-ordered Set
SetAdd(s, x) == IF x \in Range(s) THEN s ELSE Append(s, x)

RECURSIVE SetAddAll(_, _, _, _)
SetAddAll(s, xs, lo, hi) ==
    IF lo > hi THEN s
    ELSE IF lo = hi THEN SetAdd(s, xs[lo])
    ELSE LET s1 == SetAddAll(s, xs, lo, Mid(lo, hi))
         IN  IF Evaluated(s1) THEN SetAddAll(s1, xs, Mid(lo, hi) + 1, hi)
             ELSE s1

\* new Set(array): first occurrences, in order
SetOf(xs) == SetAddAll(<<>>, xs, 1, Len(xs))

EmptyMap == [keys |-> <<>>, val |-> [k \in {} |-> 0]]

MapHas(m, k) == k \in DOMAIN m.val

MapSet(m, k, v) ==
    IF MapHas(m, k) THEN [m EXCEPT !.val[k] = v]
    ELSE [keys |-> Append(m.keys, k), val |-> m.val @@ (k :> v)]

(***************************************************************************)
(* Numbers with NaN                                                        *)
(***************************************************************************)
NaN == 0 - 2147483647

IsNaN(x) == x = NaN

NumLt(a, b) == ~IsNaN(a) /\ ~IsNaN(b) /\ a < b

NumLe(a, b) == ~IsNaN(a) /\ ~IsNaN(b) /\ a <= b

NumSub(a, b) == IF IsNaN(a) \/ IsNaN(b) THEN NaN ELSE a - b

NumAdd(a, b) == IF IsNaN(a) \/ IsNaN(b) THEN NaN ELSE a + b

\* null, a second reserved value
Null == 0 - 2147483646

\* !x for a number or null
Falsy(x) == x = Null \/ x = 0 \/ IsNaN(x)

(***************************************************************************)
(* Tunable thresholds of the engine                                        *)
(***************************************************************************)
HOUR_MS == 60 * 60 * 1000

WINDOW_MS == 72 * 60 * 60 * 1000

MIN_UNIQUE == 10

MERCHANT_IN_THRESHOLD == 100

MERCHANT_AVG_AMOUNT == 2000

SHELL_MAX_TX == 3

SHELL_MIN_TX == 2

\* risks are fractions n / RiskDen; 1200 is a common denominator of 1/30,
\* 1/40 and the decimal weights 0.5, 0.3, 0.2, 0.15, 0.85, 0.7, 0.1, 0.75
RiskDen == 1200

\* 0.65 * RiskDen
SMURFING_RISK_THRESHOLD == 780

\* 0.6, as a quotient
PASSTHROUGH_RATIO_MIN == [num |-> 3, den |-> 5]

(***************************************************************************)
(* Transactions                                                            *)
(***************************************************************************)
\* A timestamp text: an ISO date-time denoting an epoch value, or text that
\* Date cannot parse.
Ts(n) == [text |-> "iso", epoch |-> n]

BadTs == [text |-> "invalid", epoch |-> 0]

\* new Date(text).getTime()
DateGetTime(ts) == IF ts.text = "iso" THEN ts.epoch ELSE NaN

Tx(s, r, amt, t) ==
    [transaction_id |-> 0, sender_id |-> s, receiver_id |-> r,
     amount |-> amt, timestamp |-> Ts(t)]

\* the record after buildGraph has cached the parsed time on it
WithTime(tx) ==
    [transaction_id |-> tx.transaction_id, sender_id |-> tx.sender_id,
     receiver_id |-> tx.receiver_id, amount |-> tx.amount,
     timestamp |-> tx.timestamp, _time |-> DateGetTime(tx.timestamp)]

(***************************************************************************)
(* BUILD GRAPH                                                             *)
(***************************************************************************)
BuildGraphStep(g, tx0) ==
    LET tx  == WithTime(tx0)
        s   == tx.sender_id
        r   == tx.receiver_id
        nb  == IF MapHas(g.adjacency, s) THEN g.adjacency.val[s] ELSE <<>>
        adj == MapSet(g.adjacency, s, SetAdd(nb, r))
        at1 == IF MapHas(g.accountTx, s) THEN g.accountTx
               ELSE MapSet(g.accountTx, s, <<>>)
        at2 == IF MapHas(at1, r) THEN at1 ELSE MapSet(at1, r, <<>>)
        at3 == MapSet(at2, s, Append(at2.val[s], tx))
        at4 == MapSet(at3, r, Append(at3.val[r], tx))
    IN  [transactions |-> Append(g.transactions, tx),
         adjacency |-> adj, accountTx |-> at4]

RECURSIVE BuildGraphLoop(_, _, _, _)
BuildGraphLoop(txs, lo, hi, g) ==
    IF lo > hi THEN g
    ELSE IF lo = hi THEN BuildGraphStep(g, txs[lo])
    ELSE LET g1 == BuildGraphLoop(txs, lo, Mid(lo, hi), g)
         IN  IF Evaluated(g1) THEN BuildGraphLoop(txs, Mid(lo, hi) + 1, hi, g1)
             ELSE g1

buildGraph(txs) ==
    BuildGraphLoop(txs, 1, Len(txs),
        [transactions |-> <<>>, adjacency |-> EmptyMap, accountTx |-> EmptyMap])

(***************************************************************************)
(* 1. CYCLE DETECTION                                                      *)
(***************************************************************************)
\* the text of an account id, and Array.prototype.join
IdText(a) == ToString(a)

RECURSIVE Join(_, _, _)
Join(arr, sep, i) ==
    IF i > Len(arr) THEN ""
    ELSE IF i = Len(arr) THEN IdText(arr[i])
    ELSE IdText(arr[i]) \o sep \o Join(arr, sep, i + 1)

\* a.join(",").localeCompare(b.join(",")) < 0, for ids of one width
RECURSIVE JoinedLess(_, _, _)
JoinedLess(a, b, i) ==
    IF i > Len(a) \/ i > Len(b) THEN Len(a) < Len(b)
    ELSE IF a[i] # b[i] THEN a[i] < b[i]
    ELSE JoinedLess(a, b, i + 1)

\* [...arr.slice(i), ...arr.slice(0, i)]
Rotation(arr, i) == SubSeq(arr, i + 1, Len(arr)) \o SubSeq(arr, 1, i)

\* the entries one loop of canonicalize pushes: the rotations of arr
RotationsOf(arr) == [j \in 1..Len(arr) |-> Rotation(arr, j - 1)]

\* `rotations` without the rotations of the reversal
RotationsForward(arr) == RotationsOf(arr)

\* the array `rotations` of canonicalize: the rotations of arr, then the
\* rotations of its reversal
Rotations(arr) == RotationsOf(arr) \o RotationsOf(Reverse(arr))

\* element [0] without the sort
SortedFirstUnsorted(rots) == rots[1]

\* element [0] of the (stable) sort: the first entry no other entry precedes
SortedFirst(rots) ==
    LET j == CHOOSE j \in 1..Len(rots) :
                /\ \A k \in 1..Len(rots) : ~JoinedLess(rots[k], rots[j], 1)
                /\ \A k \in 1..(j - 1) : JoinedLess(rots[j], rots[k], 1)
    IN  rots[j]

canonicalize(arr) == Join(SortedFirst(Rotations(arr)), "|", 1)

RECURSIVE dfs(_, _, _, _, _, _, _, _)
RECURSIVE dfsLoop(_, _, _, _, _, _, _, _, _, _)
\* st = [emitted, results]: the two collections of detectCycles the search
\* updates; the value returned is st after the call
dfs(adj, min, max, start, current, path, visited, st) ==
    IF Len(path) > max THEN st
    ELSE IF ~MapHas(adj, current) THEN st
    ELSE dfsLoop(adj, min, max, start, path, visited, st,
                 adj.val[current], 1, Len(adj.val[current]))

\* the body of the loop without the test `path.length >= min`
dfsNextAnyLength(adj, min, max, start, path, visited, st, next) ==
    LET key == canonicalize(path)
        st1 == IF next = start /\ key \notin st.emitted
               THEN [emitted |-> st.emitted \cup {key},
                     results |-> Append(st.results, path)]
               ELSE st
    IN  IF next \notin visited
        THEN dfs(adj, min, max, start, next, Append(path, next),
                 visited \cup {next}, st1)
        ELSE st1

\* the body of the loop pushing the canonical rotation in the place of the
\* path
dfsNextCanonical(adj, min, max, start, path, visited, st, next) ==
    LET key == canonicalize(path)
        st1 == IF next = start /\ Len(path) >= min /\ key \notin st.emitted
               THEN [emitted |-> st.emitted \cup {key},
                     results |-> Append(st.results,
                                        SortedFirst(Rotations(path)))]
               ELSE st
    IN  IF next \notin visited
        THEN dfs(adj, min, max, start, next, Append(path, next),
                 visited \cup {next}, st1)
        ELSE st1

\* the body of `for (const next of neighbors)`
dfsNext(adj, min, max, start, path, visited, st, next) ==
    LET key == canonicalize(path)
        st1 == IF next = start /\ Len(path) >= min /\ key \notin st.emitted
               THEN [emitted |-> st.emitted \cup {key},
                     results |-> Append(st.results, path)]
               ELSE st
    IN  IF next \notin visited
        THEN dfs(adj, min, max, start, next, Append(path, next),
                 visited \cup {next}, st1)
        ELSE st1

dfsLoop(adj, min, max, start, path, visited, st, neighbors, lo, hi) ==
    IF lo > hi THEN st
    ELSE IF lo = hi
    THEN dfsNext(adj, min, max, start, path, visited, st, neighbors[lo])
    ELSE LET st1 == dfsLoop(adj, min, max, start, path, visited, st,
                            neighbors, lo, Mid(lo, hi))
         IN  IF Evaluated(st1)
             THEN dfsLoop(adj, min, max, start, path, visited, st1,
                          neighbors, Mid(lo, hi) + 1, hi)
             ELSE st1

\* `for (const node of this.adjacency.keys())`
RECURSIVE detectCyclesLoop(_, _, _, _, _, _)
detectCyclesLoop(adj, min, max, lo, hi, st) ==
    IF lo > hi THEN st
    ELSE IF lo = hi
    THEN dfs(adj, min, max, adj.keys[lo], adj.keys[lo], <<adj.keys[lo]>>,
             {adj.keys[lo]}, st)
    ELSE LET st1 == detectCyclesLoop(adj, min, max, lo, Mid(lo, hi), st)
         IN  IF Evaluated(st1)
             THEN detectCyclesLoop(adj, min, max, Mid(lo, hi) + 1, hi, st1)
             ELSE st1

detectCycles(adj, min, max) ==
    detectCyclesLoop(adj, min, max, 1, Len(adj.keys),
                     [emitted |-> {}, results |-> <<>>]).results

(***************************************************************************)
(* MERCHANT / LEGITIMATE ACCOUNT FILTER                                    *)
(***************************************************************************)
\* an optional argument: omitted, or given with a value
Undefined == <<>>

Given(v) == <<v>>

\* a quotient num / den, kept exact
Quot(n, d) == [num |-> n, den |-> d]

\* q > c, for den > 0
QuotGt(q, c) == q.num > c * q.den

RECURSIVE SumRange(_, _, _)
SumRange(txs, lo, hi) ==
    IF lo > hi THEN 0
    ELSE IF lo = hi THEN txs[lo].amount
    ELSE SumRange(txs, lo, Mid(lo, hi)) + SumRange(txs, Mid(lo, hi) + 1, hi)

\* txs.reduce((s, t) => s + t.amount, 0)
SumAmount(txs) == SumRange(txs, 1, Len(txs))

TxsOf(at, account) == IF MapHas(at, account) THEN at.val[account] ELSE <<>>

\* txs.filter(t => t.receiver_id === account)
Incoming(txs, account) ==
    LET Test(t) == t.receiver_id = account IN SelectSeq(txs, Test)

\* txs.filter(t => t.sender_id === account)
Outgoing(txs, account) ==
    LET Test(t) == t.sender_id = account IN SelectSeq(txs, Test)

isMerchant(at, account, fanIn, avgAmount) ==
    LET txs      == TxsOf(at, account)
        incoming == Incoming(txs, account)
        outgoing == Outgoing(txs, account)
        effectiveFanIn == IF fanIn # Undefined THEN fanIn[1] ELSE Len(incoming)
        effectiveAvg ==
            IF avgAmount # Undefined THEN avgAmount[1]
            ELSE IF Len(incoming) > 0
                 THEN Quot(SumAmount(incoming), Len(incoming))
                 ELSE Quot(0, 1)
        uniqueReceivers ==
            Cardinality({outgoing[i].receiver_id : i \in 1..Len(outgoing)})
    IN  \/ /\ effectiveFanIn > MERCHANT_IN_THRESHOLD
           /\ Len(outgoing) = 0
           /\ QuotGt(effectiveAvg, MERCHANT_AVG_AMOUNT)
        \/ /\ uniqueReceivers > MERCHANT_IN_THRESHOLD
           /\ Len(incoming) <= 5

(***************************************************************************)
(* 2. SMURFING DETECTION                                                   *)
(***************************************************************************)
\* Array.prototype.sort((a, b) => a._time - b._time): the stable sort,
\* which puts the entry at i behind the entries timed earlier and behind
\* the earlier entries not timed later
SortByTime(txs) ==
    LET Before(j, i) ==
            \/ NumLt(txs[j]._time, txs[i]._time)
            \/ j < i /\ ~NumLt(txs[i]._time, txs[j]._time)
        Place(i) == Cardinality({j \in 1..Len(txs) : Before(j, i)}) + 1
    IN  [k \in 1..Len(txs) |-> txs[CHOOSE i \in 1..Len(txs) : Place(i) = k]]

\* while (incoming[left]._time < windowEnd - WINDOW_MS) left++
AdvanceLeft(incoming, left, windowEnd) ==
    CHOOSE l \in left..Len(incoming) :
        /\ ~NumLt(incoming[l]._time, NumSub(windowEnd, WINDOW_MS))
        /\ \A k \in left..(l - 1) :
              NumLt(incoming[k]._time, NumSub(windowEnd, WINDOW_MS))

\* the body of the scan with a window of equal length taking over
WindowStepLastWins(incoming, right, w) ==
    LET left   == AdvanceLeft(incoming, w.left, incoming[right]._time)
        window == SubSeq(incoming, left, right)
    IN  [left |-> left,
         best |-> IF Len(window) >= Len(w.best) THEN window ELSE w.best]

\* the body of the two-pointer scan; w = [left, best]: `left`, `bestWindow`
WindowStep(incoming, right, w) ==
    LET left   == AdvanceLeft(incoming, w.left, incoming[right]._time)
        window == SubSeq(incoming, left, right)
    IN  [left |-> left,
         best |-> IF Len(window) > Len(w.best) THEN window ELSE w.best]

RECURSIVE WindowLoop(_, _, _, _)
WindowLoop(incoming, lo, hi, w) ==
    IF lo > hi THEN w
    ELSE IF lo = hi THEN WindowStep(incoming, lo, w)
    ELSE LET w1 == WindowLoop(incoming, lo, Mid(lo, hi), w)
         IN  IF Evaluated(w1) THEN WindowLoop(incoming, Mid(lo, hi) + 1, hi, w1)
             ELSE w1

DensestWindow(incoming) ==
    WindowLoop(incoming, 1, Len(incoming), [left |-> 1, best |-> <<>>]).best

Senders(txs) == SetOf([i \in 1..Len(txs) |-> txs[i].sender_id])

Receivers(txs) == SetOf([i \in 1..Len(txs) |-> txs[i].receiver_id])

\* the outgoing transactions timed in [windowStart, windowStart + 72h]
FanOutTxs(txs, account, windowStart) ==
    LET Test(t) == /\ t.sender_id = account
                   /\ NumLe(windowStart, t._time)
                   /\ NumLe(t._time, NumAdd(windowStart, WINDOW_MS))
    IN  SelectSeq(txs, Test)

\* the risk without the cap of the hub factor at 1
SmurfRiskUncapped(s, r, hasFanOut) ==
    IF hasFanOut THEN 20 * Min2(s, 30) + 9 * (s + r) + 240
    ELSE 20 * Min2(s, 30) + 180

\* the risk with the base of the full pattern, 0.2, in both branches
SmurfRiskOneBase(s, r, hasFanOut) ==
    IF hasFanOut THEN 20 * Min2(s, 30) + 9 * Min2(s + r, 40) + 240
    ELSE 20 * Min2(s, 30) + 240

\* 0.5 * min(s / 30, 1) + 0.3 * min((s + r) / 40, 1) + 0.2, or
\* 0.5 * min(s / 30, 1) + 0.15, in units of 1 / RiskDen
SmurfRisk(s, r, hasFanOut) ==
    IF hasFanOut THEN 20 * Min2(s, 30) + 9 * Min2(s + r, 40) + 240
    ELSE 20 * Min2(s, 30) + 180

\* the body of the loop without the test of uniqueSenders.size
SmurfRingsOfAnySenders(at, account) ==
    LET txs == at.val[account]
        incoming == SortByTime(Incoming(txs, account))
        bestWindow == DensestWindow(incoming)
        uniqueSenders == Senders(bestWindow)
        windowStart == bestWindow[1]._time
        avgAmount == Quot(SumAmount(bestWindow), Len(bestWindow))
        uniqueReceivers == Receivers(FanOutTxs(txs, account, windowStart))
        hasFanOut == Len(uniqueReceivers) >= MIN_UNIQUE
        risk == SmurfRisk(Len(uniqueSenders), Len(uniqueReceivers), hasFanOut)
        accounts == IF hasFanOut
                    THEN <<account>> \o uniqueSenders \o uniqueReceivers
                    ELSE <<account>> \o uniqueSenders
    IN  IF isMerchant(at, account, Undefined, Undefined) THEN <<>>
        ELSE IF Len(incoming) < MIN_UNIQUE THEN <<>>
        ELSE IF Len(bestWindow) < MIN_UNIQUE THEN <<>>
        ELSE IF isMerchant(at, account, Given(Len(uniqueSenders)),
                           Given(avgAmount)) THEN <<>>
        ELSE IF risk < SMURFING_RISK_THRESHOLD THEN <<>>
        ELSE <<[accounts |-> SetOf(accounts), risk |-> risk]>>

\* the body of the for loop of detectSmurfing for one entry of accountTx:
\* the rings pushed for it (none or one)
SmurfRingsOf(at, account) ==
    LET txs == at.val[account]
        incoming == SortByTime(Incoming(txs, account))
        bestWindow == DensestWindow(incoming)
        uniqueSenders == Senders(bestWindow)
        windowStart == bestWindow[1]._time
        avgAmount == Quot(SumAmount(bestWindow), Len(bestWindow))
        uniqueReceivers == Receivers(FanOutTxs(txs, account, windowStart))
        hasFanOut == Len(uniqueReceivers) >= MIN_UNIQUE
        risk == SmurfRisk(Len(uniqueSenders), Len(uniqueReceivers), hasFanOut)
        accounts == IF hasFanOut
                    THEN <<account>> \o uniqueSenders \o uniqueReceivers
                    ELSE <<account>> \o uniqueSenders
    IN  IF isMerchant(at, account, Undefined, Undefined) THEN <<>>
        ELSE IF Len(incoming) < MIN_UNIQUE THEN <<>>
        ELSE IF Len(bestWindow) < MIN_UNIQUE THEN <<>>
        ELSE IF Len(uniqueSenders) < MIN_UNIQUE THEN <<>>
        ELSE IF isMerchant(at, account, Given(Len(uniqueSenders)),
                           Given(avgAmount)) THEN <<>>
        ELSE IF risk < SMURFING_RISK_THRESHOLD THEN <<>>
        ELSE <<[accounts |-> SetOf(accounts), risk |-> risk]>>

\* `for (const [account, txs] of this.accountTx.entries())`
RECURSIVE detectSmurfingLoop(_, _, _)
detectSmurfingLoop(at, lo, hi) ==
    IF lo > hi THEN <<>>
    ELSE IF lo = hi THEN SmurfRingsOf(at, at.keys[lo])
    ELSE detectSmurfingLoop(at, lo, Mid(lo, hi))
            \o detectSmurfingLoop(at, Mid(lo, hi) + 1, hi)

detectSmurfing(at) == detectSmurfingLoop(at, 1, Len(at.keys))

(***************************************************************************)
(* 3. SHELL NETWORK DETECTION                                              *)
(***************************************************************************)
\* the time of the earliest of the transactions from -> to
getTxTimeEarliest(at, from, to) ==
    LET txs == TxsOf(at, from)
        hit == {i \in 1..Len(txs) :
                   txs[i].sender_id = from /\ txs[i].receiver_id = to}
    IN  IF hit = {} THEN Null
        ELSE txs[CHOOSE i \in hit :
                    \A j \in hit : ~NumLt(txs[j]._time, txs[i]._time)]._time

getTxTime(at, from, to) ==
    LET txs == TxsOf(at, from)
        hit == {i \in 1..Len(txs) :
                   txs[i].sender_id = from /\ txs[i].receiver_id = to}
    IN  IF hit = {} THEN Null
        ELSE txs[CHOOSE i \in hit : \A j \in hit : i <= j]._time

\* the test with <= in the place of <
isTemporalChainLoose(at, a, b, c, d) ==
    LET ab == getTxTime(at, a, b)
        bc == getTxTime(at, b, c)
        cd == getTxTime(at, c, d)
    IN  IF Falsy(ab) \/ Falsy(bc) \/ Falsy(cd) THEN FALSE
        ELSE NumLe(ab, bc) /\ NumLe(bc, cd)

isTemporalChain(at, a, b, c, d) ==
    LET ab == getTxTime(at, a, b)
        bc == getTxTime(at, b, c)
        cd == getTxTime(at, c, d)
    IN  IF Falsy(ab) \/ Falsy(bc) \/ Falsy(cd) THEN FALSE
        ELSE NumLt(ab, bc) /\ NumLt(bc, cd)

\* the risk with a spread of exactly 24 hours counted as fast
shellRiskWithinADay(at, a, b, c, d) ==
    LET ab == getTxTime(at, a, b)
        cd == getTxTime(at, c, d)
        totalSpread == NumSub(cd, ab)
    IN  IF NumLe(totalSpread, 24 * 60 * 60 * 1000) THEN 960 ELSE 750

\* 0.7 * speedScore + 0.1 in units of 1 / RiskDen: 0.8 or 0.625
shellRisk(at, a, b, c, d) ==
    LET ab == getTxTime(at, a, b)
        cd == getTxTime(at, c, d)
        totalSpread == NumSub(cd, ab)
    IN  IF NumLt(totalSpread, 24 * 60 * 60 * 1000) THEN 960 ELSE 750

\* the test without the pass-through ratio
isShellIntermediateAnyRatio(at, account) ==
    LET txs == TxsOf(at, account)
        totalIn == SumAmount(Incoming(txs, account))
    IN  IF Len(txs) < SHELL_MIN_TX \/ Len(txs) > SHELL_MAX_TX THEN FALSE
        ELSE totalIn # 0

isShellIntermediate(at, account) ==
    LET txs == TxsOf(at, account)
        totalIn == SumAmount(Incoming(txs, account))
        totalOut == SumAmount(Outgoing(txs, account))
    IN  IF Len(txs) < SHELL_MIN_TX \/ Len(txs) > SHELL_MAX_TX THEN FALSE
        ELSE IF totalIn = 0 THEN FALSE
        \* min(totalOut / totalIn, totalIn / totalOut) >= 0.6; a zero
        \* totalOut makes the first quotient 0
        ELSE /\ totalOut * PASSTHROUGH_RATIO_MIN.den
                    >= totalIn * PASSTHROUGH_RATIO_MIN.num
             /\ totalIn * PASSTHROUGH_RATIO_MIN.den
                    >= totalOut * PASSTHROUGH_RATIO_MIN.num

\* adjacency.get(x) || []
NeighborsOf(adj, x) == IF MapHas(adj, x) THEN adj.val[x] ELSE <<>>

\* st = [rings, seen] of detectShell; each loop returns st after it has run
\* the body of `for (const d of this.adjacency.get(c) || [])`
shellD(adj, at, a, b, c, d, st) ==
    LET nodes == <<a, b, c, d>>
        risk  == shellRisk(at, a, b, c, d)
        key   == Join(nodes, "|", 1)
    IN  IF d = a \/ d = b \/ d = c THEN st
        ELSE IF MapHas(adj, d) /\ a \in Range(adj.val[d]) THEN st
        ELSE IF ~isTemporalChain(at, a, b, c, d) THEN st
        \* risk < 0.6
        ELSE IF risk < 720 THEN st
        ELSE IF key \in st.seen THEN st
        ELSE [rings |-> Append(st.rings, [accounts |-> nodes, risk |-> risk]),
              seen |-> st.seen \cup {key}]

RECURSIVE shellLoopD(_, _, _, _, _, _, _, _, _)
shellLoopD(adj, at, a, b, c, ds, lo, hi, st) ==
    IF lo > hi THEN st
    ELSE IF lo = hi THEN shellD(adj, at, a, b, c, ds[lo], st)
    ELSE LET st1 == shellLoopD(adj, at, a, b, c, ds, lo, Mid(lo, hi), st)
         IN  IF Evaluated(st1)
             THEN shellLoopD(adj, at, a, b, c, ds, Mid(lo, hi) + 1, hi, st1)
             ELSE st1

\* the body of `for (const c of this.adjacency.get(b) || [])`
shellC(adj, at, cyc, a, b, c, st) ==
    IF c \in cyc THEN st
    ELSE IF ~isShellIntermediate(at, c) THEN st
    ELSE IF c = a THEN st
    ELSE shellLoopD(adj, at, a, b, c, NeighborsOf(adj, c), 1,
                    Len(NeighborsOf(adj, c)), st)

RECURSIVE shellLoopC(_, _, _, _, _, _, _, _, _)
shellLoopC(adj, at, cyc, a, b, cs, lo, hi, st) ==
    IF lo > hi THEN st
    ELSE IF lo = hi THEN shellC(adj, at, cyc, a, b, cs[lo], st)
    ELSE LET st1 == shellLoopC(adj, at, cyc, a, b, cs, lo, Mid(lo, hi), st)
         IN  IF Evaluated(st1)
             THEN shellLoopC(adj, at, cyc, a, b, cs, Mid(lo, hi) + 1, hi, st1)
             ELSE st1

\* the body of `for (const b of neighborsA)`
shellB(adj, at, cyc, a, b, st) ==
    IF b \in cyc THEN st
    ELSE IF ~isShellIntermediate(at, b) THEN st
    ELSE shellLoopC(adj, at, cyc, a, b, NeighborsOf(adj, b), 1,
                    Len(NeighborsOf(adj, b)), st)

RECURSIVE shellLoopB(_, _, _, _, _, _, _, _)
shellLoopB(adj, at, cyc, a, bs, lo, hi, st) ==
    IF lo > hi THEN st
    ELSE IF lo = hi THEN shellB(adj, at, cyc, a, bs[lo], st)
    ELSE LET st1 == shellLoopB(adj, at, cyc, a, bs, lo, Mid(lo, hi), st)
         IN  IF Evaluated(st1)
             THEN shellLoopB(adj, at, cyc, a, bs, Mid(lo, hi) + 1, hi, st1)
             ELSE st1

\* the body of the loop without the test of isMerchant(a)
shellAUnguarded(adj, at, cyc, a, st) ==
    IF a \in cyc THEN st
    ELSE shellLoopB(adj, at, cyc, a, adj.val[a], 1, Len(adj.val[a]), st)

\* the body of `for (const [a, neighborsA] of this.adjacency.entries())`
shellA(adj, at, cyc, a, st) ==
    IF isMerchant(at, a, Undefined, Undefined) THEN st
    ELSE IF a \in cyc THEN st
    ELSE shellLoopB(adj, at, cyc, a, adj.val[a], 1, Len(adj.val[a]), st)

RECURSIVE shellLoopA(_, _, _, _, _, _)
shellLoopA(adj, at, cyc, lo, hi, st) ==
    IF lo > hi THEN st
    ELSE IF lo = hi THEN shellA(adj, at, cyc, adj.keys[lo], st)
    ELSE LET st1 == shellLoopA(adj, at, cyc, lo, Mid(lo, hi), st)
         IN  IF Evaluated(st1)
             THEN shellLoopA(adj, at, cyc, Mid(lo, hi) + 1, hi, st1)
             ELSE st1

detectShell(adj, at, cyc) ==
    shellLoopA(adj, at, cyc, 1, Len(adj.keys),
               [rings |-> <<>>, seen |-> {}]).rings

(***************************************************************************)
(* RING REGISTRY: addRing of analyze                                       *)
(***************************************************************************)
DigitText(d) ==
    CASE d = 0 -> "0" [] d = 1 -> "1" [] d = 2 -> "2" [] d = 3 -> "3"
      [] d = 4 -> "4" [] d = 5 -> "5" [] d = 6 -> "6" [] d = 7 -> "7"
      [] d = 8 -> "8" [] d = 9 -> "9"

\* String(n) for a natural number
RECURSIVE NumberText(_)
NumberText(n) ==
    IF n < 10 THEN DigitText(n)
    ELSE NumberText(n \div 10) \o DigitText(n % 10)

\* text.padStart(width, "0")
RECURSIVE PadStart(_, _)
PadStart(text, width) ==
    IF Len(text) >= width THEN text ELSE PadStart("0" \o text, width)

\* a ring id without the padding
RingIdUnpadded(counter) == "RING_" \o NumberText(counter)

RingId(counter) == "RING_" \o PadStart(NumberText(counter), 3)

\* the risks whose IEEE-754 value, times 100, lies just below the midpoint
\* of two tenths where the exact value lies on it (71.25, 79.75, 82.75,
\* 94.25); every other midpoint is met exactly or from above
TiesBelow == {855, 957, 993, 1131}

\* Number((clampedRisk * 100).toFixed(1)), in tenths
RiskScore(risk) ==
    LET clampedRisk == Min2(Max2(risk, 0), RiskDen)
    IN  IF clampedRisk \in TiesBelow THEN (clampedRisk * 10) \div 12
        ELSE (clampedRisk * 10 + 6) \div 12

\* the body of the loop without the test of isMerchant(acc)
addMemberUnguarded(at, m, acc, pattern, ringId, riskScore) ==
    LET existing == m.val[acc]
        higher   == riskScore > existing.suspicion_score
    IN  IF ~MapHas(m, acc)
        THEN MapSet(m, acc,
                 [account_id |-> acc, suspicion_score |-> riskScore,
                  detected_patterns |-> <<pattern>>, ring_id |-> ringId])
        ELSE MapSet(m, acc,
                 [account_id |-> acc,
                  suspicion_score |->
                      IF higher THEN riskScore ELSE existing.suspicion_score,
                  detected_patterns |->
                      IF pattern \in Range(existing.detected_patterns)
                      THEN existing.detected_patterns
                      ELSE Append(existing.detected_patterns, pattern),
                  ring_id |-> IF higher THEN ringId ELSE existing.ring_id])

\* the body of the loop with the score and ring of the last ring written
addMemberLastWins(at, m, acc, pattern, ringId, riskScore) ==
    LET existing == m.val[acc]
    IN  IF isMerchant(at, acc, Undefined, Undefined) THEN m
        ELSE IF ~MapHas(m, acc)
        THEN MapSet(m, acc,
                 [account_id |-> acc, suspicion_score |-> riskScore,
                  detected_patterns |-> <<pattern>>, ring_id |-> ringId])
        ELSE MapSet(m, acc,
                 [account_id |-> acc, suspicion_score |-> riskScore,
                  detected_patterns |->
                      IF pattern \in Range(existing.detected_patterns)
                      THEN existing.detected_patterns
                      ELSE Append(existing.detected_patterns, pattern),
                  ring_id |-> ringId])

\* the body of the loop with a ring of an equal score taking the entry over
addMemberTiesReplace(at, m, acc, pattern, ringId, riskScore) ==
    LET existing == m.val[acc]
        higher   == riskScore >= existing.suspicion_score
    IN  IF isMerchant(at, acc, Undefined, Undefined) THEN m
        ELSE IF ~MapHas(m, acc)
        THEN MapSet(m, acc,
                 [account_id |-> acc, suspicion_score |-> riskScore,
                  detected_patterns |-> <<pattern>>, ring_id |-> ringId])
        ELSE MapSet(m, acc,
                 [account_id |-> acc,
                  suspicion_score |->
                      IF higher THEN riskScore ELSE existing.suspicion_score,
                  detected_patterns |->
                      IF pattern \in Range(existing.detected_patterns)
                      THEN existing.detected_patterns
                      ELSE Append(existing.detected_patterns, pattern),
                  ring_id |-> IF higher THEN ringId ELSE existing.ring_id])

\* the body of `for (const acc of accounts)` in addRing; m is suspiciousMap
addMember(at, m, acc, pattern, ringId, riskScore) ==
    LET existing == m.val[acc]
        higher   == riskScore > existing.suspicion_score
    IN  IF isMerchant(at, acc, Undefined, Undefined) THEN m
        ELSE IF ~MapHas(m, acc)
        THEN MapSet(m, acc,
                 [account_id |-> acc, suspicion_score |-> riskScore,
                  detected_patterns |-> <<pattern>>, ring_id |-> ringId])
        ELSE MapSet(m, acc,
                 [account_id |-> acc,
                  suspicion_score |->
                      IF higher THEN riskScore ELSE existing.suspicion_score,
                  detected_patterns |->
                      IF pattern \in Range(existing.detected_patterns)
                      THEN existing.detected_patterns
                      ELSE Append(existing.detected_patterns, pattern),
                  ring_id |-> IF higher THEN ringId ELSE existing.ring_id])

RECURSIVE addMembers(_, _, _, _, _, _, _, _)
addMembers(at, m, accounts, lo, hi, pattern, ringId, riskScore) ==
    IF lo > hi THEN m
    ELSE IF lo = hi
    THEN addMember(at, m, accounts[lo], pattern, ringId, riskScore)
    ELSE LET m1 == addMembers(at, m, accounts, lo, Mid(lo, hi), pattern,
                              ringId, riskScore)
         IN  IF Evaluated(m1)
             THEN addMembers(at, m1, accounts, Mid(lo, hi) + 1, hi, pattern,
                             ringId, riskScore)
             ELSE m1

\* reg = [suspiciousMap, fraudRings, ringCounter], the locals of analyze
addRing(at, reg, accounts, pattern, risk) ==
    LET ringId == RingId(reg.ringCounter)
        riskScore == RiskScore(risk)
    IN  [ringCounter |-> reg.ringCounter + 1,
         fraudRings |-> Append(reg.fraudRings,
             [ring_id |-> ringId, member_accounts |-> accounts,
              pattern_type |-> pattern, risk_score |-> riskScore]),
         suspiciousMap |-> addMembers(at, reg.suspiciousMap, accounts, 1,
                                      Len(accounts), pattern, ringId,
                                      riskScore)]

(***************************************************************************)
(* Build output                                                            *)
(***************************************************************************)
\* a sort by score that puts the later of two entries of a score first
SortByScoreTiesReversed(xs) ==
    LET Before(j, i) ==
            \/ xs[j].suspicion_score > xs[i].suspicion_score
            \/ j > i /\ xs[j].suspicion_score = xs[i].suspicion_score
        Place(i) == Cardinality({j \in 1..Len(xs) : Before(j, i)}) + 1
    IN  [k \in 1..Len(xs) |-> xs[CHOOSE i \in 1..Len(xs) : Place(i) = k]]

\* values.sort((a, b) => b.suspicion_score - a.suspicion_score): the
\* stable sort, which puts the entry at i behind the entries of a higher
\* score and behind the earlier entries of the same score
SortByScore(xs) ==
    LET Before(j, i) ==
            \/ xs[j].suspicion_score > xs[i].suspicion_score
            \/ j < i /\ xs[j].suspicion_score = xs[i].suspicion_score
        Place(i) == Cardinality({j \in 1..Len(xs) : Before(j, i)}) + 1
    IN  [k \in 1..Len(xs) |-> xs[CHOOSE i \in 1..Len(xs) : Place(i) = k]]

MapValues(m) == [i \in 1..Len(m.keys) |-> m.val[m.keys[i]]]

AllAccounts(txs) ==
    {txs[i].sender_id : i \in 1..Len(txs)}
        \cup {txs[i].receiver_id : i \in 1..Len(txs)}

\* elapsed: the reading of performance.now() - startTime, in milliseconds
BuildResult(txs, m, rings, elapsed) ==
    LET suspicious_accounts == SortByScore(MapValues(m))
    IN  [suspicious_accounts |-> suspicious_accounts,
         fraud_rings |-> rings,
         summary |->
            [total_accounts_analyzed |-> Cardinality(AllAccounts(txs)),
             suspicious_accounts_flagged |-> Len(suspicious_accounts),
             fraud_rings_detected |-> Len(rings),
             processing_time_seconds |-> elapsed]]

(***************************************************************************)
(* Input batches                                                           *)
(***************************************************************************)
\* transaction_id is unique: the position in the batch
Numbered(txs) == [i \in 1..Len(txs) |-> [txs[i] EXCEPT !.transaction_id = i]]

\* the entries of s at the indices in S, in ascending order of index
RECURSIVE Pick(_, _, _)
Pick(s, S, i) ==
    IF i > Len(s) THEN <<>>
    ELSE IF i \in S THEN <<s[i]>> \o Pick(s, S, i + 1)
    ELSE Pick(s, S, i + 1)

\* --- small graphs: every sub-batch of a list of transfers, in the listed
\* order or reversed; the transfer at place i is timed i hours
NumGraphEdges == 9

GraphEdges ==
    <<<<1, 2>>, <<2, 3>>, <<3, 1>>, <<3, 4>>, <<4, 1>>, <<3, 2>>, <<2, 1>>,
      <<1, 3>>, <<1, 1>>, <<4, 5>>, <<5, 1>>, <<5, 6>>>>

GraphTxs ==
    [i \in 1..Min2(NumGraphEdges, Len(GraphEdges)) |->
        Tx(GraphEdges[i][1], GraphEdges[i][2], 100, i * HOUR_MS)]

GraphBatches ==
    LET subs == {Pick(GraphTxs, S, 1) : S \in SUBSET (1..Len(GraphTxs))}
    IN  {Numbered(b) : b \in subs} \cup {Numbered(Reverse(b)) : b \in subs}

\* --- one directed cycle over k accounts, optionally with every edge also
\* reversed, under three labellings of its nodes
MaxCycleLen == 6

CycleLabel(k, lab, i) ==
    CASE lab = "up" -> i
      [] lab = "down" -> k + 1 - i
      [] lab = "mixed" -> IF i % 2 = 1 THEN (i + 1) \div 2 ELSE k + 1 - (i \div 2)

CycleTxs(k, lab, both) ==
    LET fwd == [i \in 1..k |->
                   Tx(CycleLabel(k, lab, i), CycleLabel(k, lab, (i % k) + 1),
                      100, i * HOUR_MS)]
        bwd == [i \in 1..k |->
                   Tx(CycleLabel(k, lab, (i % k) + 1), CycleLabel(k, lab, i),
                      100, (k + i) * HOUR_MS)]
    IN  IF both THEN fwd \o bwd ELSE fwd

CycleBatches ==
    LET base == {CycleTxs(k, lab, both) :
                    k \in 2..MaxCycleLen, lab \in {"up", "down", "mixed"},
                    both \in BOOLEAN}
    IN  {Numbered(b) : b \in base} \cup {Numbered(Reverse(b)) : b \in base}

\* --- a chain 1 -> 2 -> 3 -> 4 with chosen hop times, alone, or with 4 on a
\* cycle 4 -> 5 -> 6 -> 4, or with a back-edge 4 -> 1
ShellTimes == {0, HOUR_MS, 2 * HOUR_MS, 3 * HOUR_MS, 25 * HOUR_MS}

ShellTail(tail) ==
    CASE tail = "none" -> <<>>
      [] tail = "cycle" -> <<Tx(4, 5, 100, 30 * HOUR_MS),
                             Tx(5, 6, 100, 31 * HOUR_MS),
                             Tx(6, 4, 100, 32 * HOUR_MS)>>
      [] tail = "back" -> <<Tx(4, 1, 100, 30 * HOUR_MS)>>

ShellBatches ==
    {Numbered(<<Tx(1, 2, 100, t1), Tx(2, 3, 100, t2), Tx(3, 4, 100, t3)>>
              \o ShellTail(tail)) :
        t1 \in ShellTimes, t2 \in ShellTimes, t3 \in ShellTimes,
        tail \in {"none", "cycle", "back"}}

\* --- a chain 1 -> 2 -> 3 -> 4 at hours 1, 2, 3 and a chain
\* 1001 -> 1002 -> 1003 -> 1004 with chosen hop times
TwoChainBatches ==
    {Numbered(<<Tx(1, 2, 100, HOUR_MS), Tx(2, 3, 100, 2 * HOUR_MS),
                Tx(3, 4, 100, 3 * HOUR_MS),
                Tx(1001, 1002, 100, t1), Tx(1002, 1003, 100, t2),
                Tx(1003, 1004, 100, t3)>>) :
        t1 \in {HOUR_MS, 2 * HOUR_MS}, t2 \in {HOUR_MS, 2 * HOUR_MS},
        t3 \in {2 * HOUR_MS, 3 * HOUR_MS}}

\* --- a chain 1 -> 2 -> 3 -> 4 with two transfers on one hop, in every
\* order of the batch: 1 -> 2 at hours 1 and `again`, or 3 -> 4 at hours
\* 3 and `again` (half the amount each)
RepeatTxs(hop, again) ==
    IF hop = 1
    THEN <<Tx(1, 2, 100, HOUR_MS), Tx(1, 2, 100, again * HOUR_MS),
           Tx(2, 3, 200, 2 * HOUR_MS), Tx(3, 4, 200, 3 * HOUR_MS)>>
    ELSE <<Tx(1, 2, 100, HOUR_MS), Tx(2, 3, 100, 2 * HOUR_MS),
           Tx(3, 4, 50, 3 * HOUR_MS), Tx(3, 4, 50, again * HOUR_MS)>>

Reordered(txs, p) == [i \in 1..Len(txs) |-> txs[p[i]]]

Orders(n) == {p \in [1..n -> 1..n] : \A i, j \in 1..n : p[i] = p[j] => i = j}

RepeatBatches ==
    {Numbered(Reordered(RepeatTxs(hop, again), p)) :
        hop \in {1, 3}, again \in {1, 2, 4}, p \in Orders(4)}

\* --- a chain 1 -> 2 -> 3 -> 4 or a cycle 1 -> 2 -> 3 -> 1 in which the
\* timestamp of one transfer cannot be parsed
BadTimeBatches ==
    {Numbered([i \in 1..3 |->
         IF i = bad
         THEN [Tx(i, IF i = 3 THEN last ELSE i + 1, 100, i * HOUR_MS)
                  EXCEPT !.timestamp = BadTs]
         ELSE Tx(i, IF i = 3 THEN last ELSE i + 1, 100, i * HOUR_MS)]) :
        bad \in 1..3, last \in {1, 4}}

\* --- a chain 1 -> 2 -> 3 -> 4 at hours 1, 2, 3 with chosen amounts, and
\* `extra` further transfers of amount 0 to account 2
AmountBatches ==
    {Numbered(<<Tx(1, 2, a1, HOUR_MS), Tx(2, 3, a2, 2 * HOUR_MS),
                Tx(3, 4, a3, 3 * HOUR_MS)>>
              \o [i \in 1..extra |-> Tx(7 + i, 2, 0, 5 * HOUR_MS)]) :
        a1 \in {0, 59, 60, 100}, a2 \in {0, 59, 60, 100},
        a3 \in {0, 59, 60, 100}, extra \in 0..2}

\* --- a chain 1 -> 2 -> 3 (-> 4) at hours 2, 3, 4 and a transfer of
\* account k to itself at hour 1, first or last in the batch
SelfTransferBatches ==
    LET chain == <<Tx(1, 2, 100, 2 * HOUR_MS), Tx(2, 3, 100, 3 * HOUR_MS),
                   Tx(3, 4, 100, 4 * HOUR_MS)>>
    IN  {Numbered(<<Tx(k, k, 100, HOUR_MS)>> \o SubSeq(chain, 1, n)) :
            k \in 1..4, n \in 2..3}
        \cup {Numbered(SubSeq(chain, 1, n) \o <<Tx(k, k, 100, HOUR_MS)>>) :
            k \in 1..4, n \in 2..3}

\* --- an aggregator (account 1) with s incoming transfers, one every `step`
\* from hour 100 on, of which the last `dup` repeat the first sender, and r
\* outgoing transfers to distinct receivers placed by `out`
MaxSenders == 31

MaxReceivers == 31

SmurfStart == 100 * HOUR_MS

OutTime(out, j) ==
    CASE out = "inside" -> SmurfStart + j * HOUR_MS
      [] out = "edge" -> SmurfStart + WINDOW_MS
      [] out = "late" -> SmurfStart + WINDOW_MS + 1
      [] out = "early" -> SmurfStart - 1

SmurfTxs(s, dup, step, r, out) ==
    [i \in 1..s |->
        Tx(IF i > s - dup THEN 101 ELSE 100 + i, 1, 50,
           SmurfStart + (i - 1) * step)]
    \o [j \in 1..r |-> Tx(1, 200 + j, 50, OutTime(out, j))]

SmurfParams ==
    {<<s, 0, HOUR_MS, r, "inside">> :
        s \in 9..MaxSenders, r \in {0, 9, 10, 12, 15, 16, 20, MaxReceivers}}
    \cup {<<s, dup, HOUR_MS, r, "inside">> :
        s \in {10, 12, 31}, dup \in {1, 2}, r \in {0, MaxReceivers}}
    \cup {<<s, 0, 8 * HOUR_MS, r, "inside">> :
        s \in {10, 12, 30}, r \in {0, MaxReceivers}}
    \cup {<<s, 0, HOUR_MS, r, out>> :
        s \in {16, 30}, r \in {10}, out \in {"edge", "late", "early"}}

SmurfBatches ==
    {Numbered(SmurfTxs(p[1], p[2], p[3], p[4], p[5])) : p \in SmurfParams}

\* --- two aggregators: account 1 with 20 senders and 15 receivers, and
\* account 1001 with senders 1101.. and receivers 1201..
Second(txs) ==
    [i \in 1..Len(txs) |->
        [txs[i] EXCEPT !.sender_id = @ + 1000, !.receiver_id = @ + 1000]]

PairBatches ==
    {Numbered(SmurfTxs(20, 0, HOUR_MS, 15, "inside")
              \o Second(SmurfTxs(q[1], q[2], HOUR_MS, q[3], "inside"))) :
        q \in {<<10, 1, MaxReceivers>>, <<9, 0, MaxReceivers>>,
               <<12, 0, 9>>, <<12, 0, 10>>}}

\* --- an aggregator (account 1) of 15 transfers from 15 senders in bursts
\* of 5 at hour 0, 5 at hour 72, 1 at hour 73 and 4 at hour 144, listed out
\* of order: the 72 hours ending at hour 72 and those ending at hour 144
\* hold 10 transfers each
BurstHours == <<72, 0, 144, 73, 0, 72, 144, 0, 72, 0, 144, 72, 0, 144, 72>>

BurstTxs == [i \in 1..Len(BurstHours) |-> Tx(100 + i, 1, 50, BurstHours[i] * HOUR_MS)]

BurstBatches == {Numbered(BurstTxs), Numbered(Reverse(BurstTxs))}

\* --- an aggregator whose first three senders are also on a cycle
\* 101 -> 102 -> 103 -> 101, alone or with a chain 11 -> 12 -> 13 -> 101
SenderCycle ==
    <<Tx(101, 102, 50, 300 * HOUR_MS), Tx(102, 103, 50, 301 * HOUR_MS),
      Tx(103, 101, 50, 302 * HOUR_MS)>>

SenderChain ==
    <<Tx(11, 12, 50, HOUR_MS), Tx(12, 13, 50, 2 * HOUR_MS),
      Tx(13, 101, 50, 3 * HOUR_MS)>>

\* a second cycle 101 -> 111 -> 112 -> 101 through the first sender, and a
\* chain 11 -> 104 -> 12 -> 13 through the fourth
SenderTies ==
    <<Tx(101, 111, 50, 310 * HOUR_MS), Tx(111, 112, 50, 311 * HOUR_MS),
      Tx(112, 101, 50, 312 * HOUR_MS),
      Tx(11, 104, 100, HOUR_MS), Tx(104, 12, 50, 2 * HOUR_MS),
      Tx(12, 13, 50, 3 * HOUR_MS)>>

MixedBatches ==
    {Numbered(SmurfTxs(p[1], 0, HOUR_MS, p[2], "inside") \o SenderCycle
              \o tail) :
        p \in {<<30, 0>>, <<20, 15>>, <<27, 12>>, <<MaxSenders, MaxReceivers>>},
        tail \in {<<>>, SenderChain}}
    \cup {Numbered(SmurfTxs(30, 0, HOUR_MS, 0, "inside") \o SenderCycle
                   \o SenderTies)}

\* --- accounts at the merchant / payroll thresholds
\* a payer (account 1) of n further receivers, on a cycle 1 -> 2 -> 3 -> 1
PayrollCycle(n) ==
    <<Tx(1, 2, 100, HOUR_MS), Tx(2, 3, 100, 2 * HOUR_MS),
      Tx(3, 1, 100, 3 * HOUR_MS)>>
    \o [j \in 1..n |-> Tx(1, 300 + j, 100, 4 * HOUR_MS)]

\* a payer (account 1) of n further receivers, heading a chain 1 -> 2 -> 3 -> 4
PayrollChain(n) ==
    <<Tx(1, 2, 100, HOUR_MS), Tx(2, 3, 100, 2 * HOUR_MS),
      Tx(3, 4, 100, 3 * HOUR_MS)>>
    \o [j \in 1..n |-> Tx(1, 300 + j, 100, 4 * HOUR_MS)]

\* a payer (account 1) of n further receivers and of k transfers to itself,
\* on a cycle 1 -> 2 -> 3 -> 1
PayrollSelfCycle(n, k) ==
    <<Tx(1, 2, 100, HOUR_MS), Tx(2, 3, 100, 2 * HOUR_MS),
      Tx(3, 1, 100, 3 * HOUR_MS)>>
    \o [j \in 1..k |-> Tx(1, 1, 100, 4 * HOUR_MS)]
    \o [j \in 1..n |-> Tx(1, 300 + j, 100, 4 * HOUR_MS)]

\* a payer (account 1) of n further receivers and of k transfers to itself,
\* heading a chain 1 -> 2 -> 3 -> 4
PayrollSelfChain(n, k) ==
    <<Tx(1, 2, 100, HOUR_MS), Tx(2, 3, 100, 2 * HOUR_MS),
      Tx(3, 4, 100, 3 * HOUR_MS)>>
    \o [j \in 1..k |-> Tx(1, 1, 100, 4 * HOUR_MS)]
    \o [j \in 1..n |-> Tx(1, 300 + j, 100, 4 * HOUR_MS)]

\* a receiver (account 4) of n transfers of `amt` within one hour, ending a
\* chain 1 -> 2 -> 3 -> 4 of transfers of `amt`
MerchantSink(n, amt) ==
    <<Tx(1, 2, amt, HOUR_MS), Tx(2, 3, amt, 2 * HOUR_MS)>>
    \o [i \in 1..n |-> Tx(400 + i, 4, amt, 3 * HOUR_MS + i)]
    \o <<Tx(3, 4, amt, 4 * HOUR_MS)>>

\* a receiver (account 4) of `early` transfers in groups of 24, the groups
\* 73 hours apart, and of a later burst of n transfers within one hour, each
\* transfer from another sender
MerchantBurst(early, n, amt) ==
    [i \in 1..early |-> Tx(400 + i, 4, amt, ((i - 1) \div 24) * 73 * HOUR_MS)]
    \o [i \in 1..n |-> Tx(500 + i, 4, amt, 300 * HOUR_MS + i)]

\* a payer heading a chain that ends in a receiver of a later burst
PayrollChainToBurst ==
    PayrollChain(MERCHANT_IN_THRESHOLD)
        \o MerchantBurst(MERCHANT_IN_THRESHOLD - 29, 30,
                         MERCHANT_AVG_AMOUNT + 100)

MerchantBatches ==
    {Numbered(PayrollChainToBurst)} \cup
    {Numbered(PayrollCycle(n)) :
        n \in {MERCHANT_IN_THRESHOLD - 1, MERCHANT_IN_THRESHOLD}}
    \cup {Numbered(PayrollChain(n)) :
        n \in {MERCHANT_IN_THRESHOLD - 1, MERCHANT_IN_THRESHOLD}}
    \cup {Numbered(PayrollSelfCycle(MERCHANT_IN_THRESHOLD - 1, k)) : k \in {2, 3}}
    \cup {Numbered(PayrollSelfChain(MERCHANT_IN_THRESHOLD - 1, k)) : k \in {2, 3}}
    \cup {Numbered(MerchantSink(n, amt)) :
        n \in {MERCHANT_IN_THRESHOLD - 1, MERCHANT_IN_THRESHOLD},
        amt \in {MERCHANT_AVG_AMOUNT, MERCHANT_AVG_AMOUNT + 1}}
    \cup {Numbered(MerchantBurst(MERCHANT_IN_THRESHOLD - n, 30,
                                  MERCHANT_AVG_AMOUNT + 1)) : n \in {29, 30}}

\* --- a transfer between every ordered pair of ManyNodes accounts, and
\* ManyChains chains 50 -> 100 + i -> 300 + i -> 51: more than a thousand
\* rings in one analysis
ManyNodes == 8

ManyChains == 70

CompleteTxs(n) ==
    [e \in 1..(n * (n - 1)) |->
        LET i == ((e - 1) \div (n - 1)) + 1
            j == ((e - 1) % (n - 1)) + 1
        IN  Tx(i, IF j >= i THEN j + 1 ELSE j, 100, e * HOUR_MS)]

ChainTxs(m) ==
    [e \in 1..(3 * m) |->
        LET i == ((e - 1) \div 3) + 1
        IN  CASE e % 3 = 1 -> Tx(50, 100 + i, 100, 200 * HOUR_MS)
              [] e % 3 = 2 -> Tx(100 + i, 300 + i, 100, 201 * HOUR_MS)
              [] OTHER     -> Tx(300 + i, 51, 100, 202 * HOUR_MS)]

ManyRingsBatches ==
    {Numbered(CompleteTxs(ManyNodes) \o ChainTxs(ManyChains)),
     Numbered(SmurfTxs(MaxSenders, 0, HOUR_MS, MaxReceivers, "inside")
              \o <<Tx(11, 12, 100, HOUR_MS), Tx(12, 13, 100, 2 * HOUR_MS),
                   Tx(13, 14, 100, 3 * HOUR_MS)>> \o ShellTail("cycle"))}

Batches ==
    GraphBatches \cup CycleBatches \cup ShellBatches \cup SmurfBatches
        \cup PairBatches \cup MixedBatches \cup MerchantBatches
        \cup TwoChainBatches \cup RepeatBatches \cup BadTimeBatches
        \cup BurstBatches \cup AmountBatches \cup SelfTransferBatches

(***************************************************************************)
(* The engine                                                              *)
(***************************************************************************)
Init ==
    /\ batch \in Batches
    /\ transactions = batch
    /\ adjacency = EmptyMap
    /\ accountTx = EmptyMap
    /\ pc = "new"
    /\ suspiciousMap = EmptyMap
    /\ fraudRings = <<>>
    /\ ringCounter = 1
    /\ cycleAccounts = {}
    /\ pending = <<>>
    /\ result = None
    /\ arg = <<>>
    /\ ret = <<>>
    /\ other = None
    /\ app = None

\* new DetectionEngine(transactions)
Construct ==
    /\ pc = "new"
    /\ LET g == buildGraph(transactions)
       IN  /\ transactions' = g.transactions
           /\ adjacency' = g.adjacency
           /\ accountTx' = g.accountTx
    /\ pc' = "constructed"
    /\ UNCHANGED <<batch, suspiciousMap, fraudRings, ringCounter,
                   cycleAccounts, pending, result>>
    /\ UNCHANGED <<arg, ret, other, app>>

Registry == [suspiciousMap |-> suspiciousMap, fraudRings |-> fraudRings,
             ringCounter |-> ringCounter]

Register(accounts, pattern, risk) ==
    LET reg == addRing(accountTx, Registry, accounts, pattern, risk)
    IN  /\ suspiciousMap' = reg.suspiciousMap
        /\ fraudRings' = reg.fraudRings
        /\ ringCounter' = reg.ringCounter

\* analyze(), up to the call of detectCycles(3, 5)
AnalyzeCycles ==
    /\ pc = "constructed"
    /\ pending' = detectCycles(adjacency, 3, 5)
    /\ pc' = "cycles"
    /\ UNCHANGED <<batch, transactions, adjacency, accountTx, suspiciousMap,
                   fraudRings, ringCounter, cycleAccounts, result>>
    /\ UNCHANGED <<arg, ret, other, app>>

\* one turn of the loop over the cycles: addRing(cycle, "cycle", 0.85)
RegisterCycle ==
    /\ pc = "cycles"
    /\ pending # <<>>
    /\ Register(Head(pending), "cycle", 1020)
    /\ cycleAccounts' = cycleAccounts \cup Range(Head(pending))
    /\ pending' = Tail(pending)
    /\ UNCHANGED <<batch, transactions, adjacency, accountTx, pc, result>>
    /\ UNCHANGED <<arg, ret, other, app>>

AnalyzeSmurfing ==
    /\ pc = "cycles"
    /\ pending = <<>>
    /\ pending' = detectSmurfing(accountTx)
    /\ pc' = "smurfing"
    /\ UNCHANGED <<batch, transactions, adjacency, accountTx, suspiciousMap,
                   fraudRings, ringCounter, cycleAccounts, result>>
    /\ UNCHANGED <<arg, ret, other, app>>

RegisterSmurf ==
    /\ pc = "smurfing"
    /\ pending # <<>>
    /\ Register(Head(pending).accounts, "smurfing", Head(pending).risk)
    /\ pending' = Tail(pending)
    /\ UNCHANGED <<batch, transactions, adjacency, accountTx, pc,
                   cycleAccounts, result>>
    /\ UNCHANGED <<arg, ret, other, app>>

\* the call of detectShell without the accounts of the cycle rings
AnalyzeShellAllAccounts ==
    /\ pc = "smurfing"
    /\ pending = <<>>
    /\ pending' = detectShell(adjacency, accountTx, {})
    /\ pc' = "shell"
    /\ UNCHANGED <<batch, transactions, adjacency, accountTx, suspiciousMap,
                   fraudRings, ringCounter, cycleAccounts, result>>
    /\ UNCHANGED <<arg, ret, other, app>>

AnalyzeShell ==
    /\ pc = "smurfing"
    /\ pending = <<>>
    /\ pending' = detectShell(adjacency, accountTx, cycleAccounts)
    /\ pc' = "shell"
    /\ UNCHANGED <<batch, transactions, adjacency, accountTx, suspiciousMap,
                   fraudRings, ringCounter, cycleAccounts, result>>
    /\ UNCHANGED <<arg, ret, other, app>>

RegisterShell ==
    /\ pc = "shell"
    /\ pending # <<>>
    /\ Register(Head(pending).accounts, "shell", Head(pending).risk)
    /\ pending' = Tail(pending)
    /\ UNCHANGED <<batch, transactions, adjacency, accountTx, pc,
                   cycleAccounts, result>>
    /\ UNCHANGED <<arg, ret, other, app>>

\* the rest of analyze(): sort, summary, return
BuildOutput ==
    /\ pc = "shell"
    /\ pending = <<>>
    /\ \E elapsed \in {0, 1} :
          result' = BuildResult(transactions, suspiciousMap, fraudRings, elapsed)
    /\ pc' = "done"
    /\ UNCHANGED <<batch, transactions, adjacency, accountTx, suspiciousMap,
                   fraudRings, ringCounter, cycleAccounts, pending>>
    /\ UNCHANGED <<arg, ret, other, app>>

Next ==
    \/ Construct
    \/ AnalyzeCycles
    \/ RegisterCycle
    \/ AnalyzeSmurfing
    \/ RegisterSmurf
    \/ AnalyzeShell
    \/ RegisterShell
    \/ BuildOutput

Spec == Init /\ [][Next]_vars

\* the engine on the batches of many rings
InitManyRings ==
    /\ batch \in ManyRingsBatches
    /\ transactions = batch
    /\ adjacency = EmptyMap
    /\ accountTx = EmptyMap
    /\ pc = "new"
    /\ suspiciousMap = EmptyMap
    /\ fraudRings = <<>>
    /\ ringCounter = 1
    /\ cycleAccounts = {}
    /\ pending = <<>>
    /\ result = None
    /\ arg = <<>>
    /\ ret = <<>>
    /\ other = None
    /\ app = None

SpecManyRings == InitManyRings /\ [][Next]_vars

(***************************************************************************)
(* canonicalize called on its own                                          *)
(***************************************************************************)
MaxIds == 4

MaxPathLen == 4

\* the sequences of 1 to n ids out of `ids`
SeqsUpTo(ids, n) == UNION {[1..k -> ids] : k \in 1..n}

InitCanonicalize ==
    /\ batch = <<>>
    /\ transactions = batch
    /\ adjacency = EmptyMap
    /\ accountTx = EmptyMap
    /\ pc = "new"
    /\ suspiciousMap = EmptyMap
    /\ fraudRings = <<>>
    /\ ringCounter = 1
    /\ cycleAccounts = {}
    /\ pending = <<>>
    /\ result = None
    /\ arg \in {<<arr>> : arr \in SeqsUpTo(1..MaxIds, MaxPathLen)}
    /\ ret = <<>>
    /\ other = None
    /\ app = None

Canonicalize ==
    /\ ret = <<>>
    /\ ret' = <<canonicalize(arg[1])>>
    /\ UNCHANGED <<batch, transactions, adjacency, accountTx, pc,
                   suspiciousMap, fraudRings, ringCounter, cycleAccounts,
                   pending, result, arg, other, app>>

SpecCanonicalize == InitCanonicalize /\ [][Canonicalize]_vars

(***************************************************************************)
(* Two analyses, each on its own DetectionEngine, with their steps         *)
(* interleaved; getTxTime called on its own on the first engine            *)
(***************************************************************************)
TwoEngineBatches ==
    {Numbered(SmurfTxs(30, 0, HOUR_MS, 0, "inside") \o SenderCycle
              \o SenderChain),
     Numbered(CycleTxs(3, "up", FALSE)),
     Numbered(<<Tx(1, 2, 100, HOUR_MS), Tx(2, 3, 100, 2 * HOUR_MS),
                Tx(3, 4, 100, 3 * HOUR_MS)>>),
     Numbered(RepeatTxs(3, 1)),
     Numbered(Reordered(RepeatTxs(3, 1), <<1, 2, 4, 3>>))}

\* the fields of a DetectionEngine built for the batch b and the locals of
\* its analyze()
Engine(b) ==
    [batch |-> b, transactions |-> b, adjacency |-> EmptyMap,
     accountTx |-> EmptyMap, pc |-> "new", suspiciousMap |-> EmptyMap,
     fraudRings |-> <<>>, ringCounter |-> 1, cycleAccounts |-> {},
     pending |-> <<>>, result |-> None]

InitTwoEngines ==
    /\ batch \in TwoEngineBatches
    /\ transactions = batch
    /\ adjacency = EmptyMap
    /\ accountTx = EmptyMap
    /\ pc = "new"
    /\ suspiciousMap = EmptyMap
    /\ fraudRings = <<>>
    /\ ringCounter = 1
    /\ cycleAccounts = {}
    /\ pending = <<>>
    /\ result = None
    /\ arg = <<>>
    /\ ret = <<>>
    /\ other \in {Engine(b) : b \in TwoEngineBatches}
    /\ app = None

\* the first engine and its analysis
engine == <<batch, transactions, adjacency, accountTx, pc, suspiciousMap,
            fraudRings, ringCounter, cycleAccounts, pending, result>>

\* this.adjacency and this.accountTx of the second engine, as shared by
\* both engines
OtherIndexShared == [adjacency |-> adjacency, accountTx |-> accountTx]

\* this.adjacency and this.accountTx of the second engine
OtherIndex ==
    [adjacency |-> other.adjacency, accountTx |-> other.accountTx]

\* the locals of analyze() of the second engine with ringCounter as a
\* counter of the process
OtherRegistryShared ==
    [suspiciousMap |-> other.suspiciousMap, fraudRings |-> other.fraudRings,
     ringCounter |-> ringCounter + other.ringCounter - 1]

\* the locals of analyze() of the second engine
OtherRegistry ==
    [suspiciousMap |-> other.suspiciousMap, fraudRings |-> other.fraudRings,
     ringCounter |-> other.ringCounter]

OtherConstruct ==
    /\ other.pc = "new"
    /\ LET g == buildGraph(other.transactions)
       IN  other' = [other EXCEPT !.transactions = g.transactions,
                                  !.adjacency = g.adjacency,
                                  !.accountTx = g.accountTx,
                                  !.pc = "constructed"]
    /\ UNCHANGED <<engine, arg, ret, app>>

OtherRegistered(accounts, pattern, risk) ==
    LET reg == addRing(OtherIndex.accountTx, OtherRegistry, accounts,
                       pattern, risk)
    IN  [other EXCEPT !.suspiciousMap = reg.suspiciousMap,
                      !.fraudRings = reg.fraudRings,
                      !.ringCounter = reg.ringCounter,
                      !.pending = Tail(other.pending)]

OtherAnalyzeCycles ==
    /\ other.pc = "constructed"
    /\ other' = [other EXCEPT
                    !.pending = detectCycles(OtherIndex.adjacency, 3, 5),
                    !.pc = "cycles"]
    /\ UNCHANGED <<engine, arg, ret, app>>

OtherRegisterCycle ==
    /\ other.pc = "cycles"
    /\ other.pending # <<>>
    /\ other' = [OtherRegistered(Head(other.pending), "cycle", 1020) EXCEPT
                    !.cycleAccounts =
                        other.cycleAccounts \cup Range(Head(other.pending))]
    /\ UNCHANGED <<engine, arg, ret, app>>

OtherAnalyzeSmurfing ==
    /\ other.pc = "cycles"
    /\ other.pending = <<>>
    /\ other' = [other EXCEPT
                    !.pending = detectSmurfing(OtherIndex.accountTx),
                    !.pc = "smurfing"]
    /\ UNCHANGED <<engine, arg, ret, app>>

OtherRegisterSmurf ==
    /\ other.pc = "smurfing"
    /\ other.pending # <<>>
    /\ other' = OtherRegistered(Head(other.pending).accounts, "smurfing",
                                Head(other.pending).risk)
    /\ UNCHANGED <<engine, arg, ret, app>>

OtherAnalyzeShell ==
    /\ other.pc = "smurfing"
    /\ other.pending = <<>>
    /\ other' = [other EXCEPT
                    !.pending = detectShell(OtherIndex.adjacency,
                                            OtherIndex.accountTx,
                                            other.cycleAccounts),
                    !.pc = "shell"]
    /\ UNCHANGED <<engine, arg, ret, app>>

OtherRegisterShell ==
    /\ other.pc = "shell"
    /\ other.pending # <<>>
    /\ other' = OtherRegistered(Head(other.pending).accounts, "shell",
                                Head(other.pending).risk)
    /\ UNCHANGED <<engine, arg, ret, app>>

OtherBuildOutput ==
    /\ other.pc = "shell"
    /\ other.pending = <<>>
    /\ \E elapsed \in {0, 1} :
          other' = [other EXCEPT
                       !.result = BuildResult(other.transactions,
                                              other.suspiciousMap,
                                              other.fraudRings, elapsed),
                       !.pc = "done"]
    /\ UNCHANGED <<engine, arg, ret, app>>

\* getTxTime(from, to) on the first engine, once both analyses returned
GetTxTime ==
    /\ pc = "done"
    /\ other.pc = "done"
    /\ ret = <<>>
    /\ \E from \in 0..MaxIds, to \in 1..MaxIds :
          /\ arg' = <<from, to>>
          /\ ret' = <<getTxTime(accountTx, from, to)>>
    /\ UNCHANGED <<engine, other, app>>

NextTwoEngines ==
    \/ Next
    \/ OtherConstruct
    \/ OtherAnalyzeCycles
    \/ OtherRegisterCycle
    \/ OtherAnalyzeSmurfing
    \/ OtherRegisterSmurf
    \/ OtherAnalyzeShell
    \/ OtherRegisterShell
    \/ OtherBuildOutput
    \/ GetTxTime

SpecTwoEngines == InitTwoEngines /\ [][NextTwoEngines]_vars

(***************************************************************************)
(* PROPERTIES                                                              *)
(***************************************************************************)
\* the number of decimal digits of a natural number
RECURSIVE DigitCount(_)
DigitCount(k) == IF k < 10 THEN 1 ELSE 1 + DigitCount(k \div 10)

\* the last `width` decimal digits of k, as text
RECURSIVE Decimal(_, _)
Decimal(k, width) ==
    IF width = 0 THEN ""
    ELSE Decimal(k \div 10, width - 1) \o DigitText(k % 10)

\* C1: the k-th ring appended to fraud_rings is named "RING_" followed by k
\* in decimal, zero-padded to at least 3 digits, so the ring ids of one
\* analysis are pairwise distinct and number the rings from 1 in the order
\* of their discovery, also beyond 999.
C1_RingIdsNumberTheRings ==
    /\ \A k \in 1..Len(fraudRings) :
          fraudRings[k].ring_id
              = "RING_" \o Decimal(k, Max2(3, DigitCount(k)))
    /\ Cardinality({fraudRings[k].ring_id : k \in 1..Len(fraudRings)})
          = Len(fraudRings)
    /\ result # None => result.fraud_rings = fraudRings

\* an analysis that has appended a ninth, a 99th and a thousandth ring
C1_Witness ==
    /\ Len(fraudRings) >= 1000
    /\ fraudRings[9].ring_id = "RING_009"
    /\ fraudRings[99].ring_id = "RING_099"
    /\ fraudRings[1000].ring_id = "RING_1000"

\* the graph of the batch handed to the engine: its accounts, its transfers
\* as ordered pairs, the accounts an account transfers to
Accounts ==
    {batch[i].sender_id : i \in 1..Len(batch)}
        \cup {batch[i].receiver_id : i \in 1..Len(batch)}

Transfers ==
    {<<batch[i].sender_id, batch[i].receiver_id>> : i \in 1..Len(batch)}

Successors(a) == {e[2] : e \in {t \in Transfers : t[1] = a}}

Distinct(seq) ==
    \A i \in 1..Len(seq) : \A j \in 1..Len(seq) : i # j => seq[i] # seq[j]

\* seq, taken as closed, follows transfers all the way round
IsDirectedCycle(seq) ==
    \A i \in 1..Len(seq) : <<seq[i], seq[(i % Len(seq)) + 1]>> \in Transfers

\* the rings of one pattern in a list of rings
RingsOf(rings, pattern) ==
    {k \in 1..Len(rings) : rings[k].pattern_type = pattern}

\* C2: every ring of pattern cycle is a simple directed cycle of the
\* transaction graph with 3 to 5 nodes: its members are pairwise distinct and
\* each member transfers to the next, the last to the first; a 2-node loop
\* or a self-transfer never yields a cycle ring.
C2_CycleRingsAreSimpleCycles ==
    \A k \in RingsOf(fraudRings, "cycle") :
        LET members == fraudRings[k].member_accounts
        IN  /\ Len(members) \in 3..5
            /\ Distinct(members)
            /\ IsDirectedCycle(members)

\* an analysis, with cycle rings of 3 and of 4 members, of a batch that also
\* holds a self-transfer and a 2-node loop
C2_Witness ==
    /\ result # None
    /\ \A n \in 3..4 : \E k \in RingsOf(fraudRings, "cycle") :
          Len(fraudRings[k].member_accounts) = n
    /\ \E a \in Accounts : <<a, a>> \in Transfers
    /\ \E a \in Accounts : \E b \in Accounts \ {a} :
          <<a, b>> \in Transfers /\ <<b, a>> \in Transfers

\* the simple paths of n accounts along the transfers
RECURSIVE PathsOfLen(_)
PathsOfLen(n) ==
    IF n = 1 THEN {<<a>> : a \in Accounts}
    ELSE UNION {{Append(p, b) : b \in Successors(p[Len(p)]) \ Range(p)} :
                   p \in PathsOfLen(n - 1)}

\* the simple directed cycles of 3 to 5 accounts, each from each of its
\* starting points
SimpleCycles ==
    {p \in PathsOfLen(3) \cup PathsOfLen(4) \cup PathsOfLen(5) :
        <<p[Len(p)], p[1]>> \in Transfers}

\* seq turned by i places, and the rotations of seq and of its reversal
Turned(seq, i) == [j \in 1..Len(seq) |-> seq[((j + i - 1) % Len(seq)) + 1]]

RotationsAndReversals(seq) ==
    {Turned(seq, i) : i \in 0..(Len(seq) - 1)}
        \cup {Turned(Reverse(seq), i) : i \in 0..(Len(seq) - 1)}

\* C3: for every simple directed cycle of 3 to 5 accounts in the transaction
\* graph, the result holds exactly one cycle ring whose member sequence is a
\* rotation or a reversed rotation of the cycle, in whatever order the
\* accounts and their neighbours are met.
C3_EveryCycleYieldsOneRing ==
    result # None =>
        \A c \in SimpleCycles :
            Cardinality({k \in RingsOf(result.fraud_rings, "cycle") :
                result.fraud_rings[k].member_accounts
                    \in RotationsAndReversals(c)}) = 1

\* a result for a graph with a cycle of 4 accounts and a cycle of 3 accounts
\* that also runs the other way round
C3_Witness ==
    /\ result # None
    /\ \E c \in SimpleCycles : Len(c) = 4
    /\ \E c \in SimpleCycles : Len(c) = 3 /\ Reverse(c) \in SimpleCycles

\* a is b or comes before b in the lexicographic order of sequences of ids
LexLe(a, b) ==
    \/ \A i \in 1..Len(a) : a[i] = b[i]
    \/ \E i \in 1..Len(a) :
          a[i] < b[i] /\ \A j \in 1..(i - 1) : a[j] = b[j]

\* C4: canonicalize returns one key for a node sequence, for each of its
\* rotations and for each rotation of its reversal, and the key is the
\* lexicographically smallest of these 2n sequences.
C4_CanonicalizeIsInvariant ==
    ret # <<>> =>
        LET all == RotationsAndReversals(arg[1])
            least == CHOOSE s \in all : \A t \in all : LexLe(s, t)
        IN  /\ \A s \in all : canonicalize(s) = ret[1]
            /\ ret[1] = Join(least, "|", 1)

\* canonicalize has returned the key of a sequence whose smallest form is a
\* rotation of its reversal
C4_Witness ==
    /\ arg = <<(<<3, 2, 1, 4>>)>>
    /\ ret = <<"1|2|3|4">>

\* C5: no account that is a member of an emitted cycle ring appears at any
\* position (A, B, C or D) of an emitted shell ring.
C5_ShellRingsAvoidCycleMembers ==
    \A k \in RingsOf(fraudRings, "shell") :
        \A j \in RingsOf(fraudRings, "cycle") :
            Range(fraudRings[k].member_accounts)
                \cap Range(fraudRings[j].member_accounts) = {}

\* the entries of the transaction list of account a that a receives: a
\* transfer is entered in the list of its sender and in the list of its
\* receiver, so a transfer of a to itself is entered twice
IncomingCount(a) ==
    LET SelfTransfer(t) == t.sender_id = a /\ t.receiver_id = a
    IN  Len(Incoming(batch, a)) + Len(SelectSeq(batch, SelfTransfer))

\* the merchant or payroll predicate over the whole history of an account:
\* more than 100 incoming transfers, none outgoing and an average incoming
\* amount above 2000; or more than 100 distinct receivers and at most 5
\* incoming entries
IsMerchantOrPayroll(a) ==
    LET inc == Incoming(batch, a)
        out == Outgoing(batch, a)
    IN  \/ /\ Len(inc) > 100
           /\ Len(out) = 0
           /\ SumAmount(inc) > 2000 * Len(inc)
        \/ /\ Cardinality({out[i].receiver_id : i \in 1..Len(out)}) > 100
           /\ IncomingCount(a) <= 5

RingsWith(rings, a) ==
    {k \in 1..Len(rings) : a \in Range(rings[k].member_accounts)}

\* entry e of the suspicious accounts agrees with the rings that hold its
\* account: highest score, all their patterns, each once
AgreesWithRings(e, rings) ==
    LET own == RingsWith(rings, e.account_id)
    IN  /\ own # {}
        /\ \E k \in own : rings[k].risk_score = e.suspicion_score
        /\ \A k \in own : rings[k].risk_score <= e.suspicion_score
        /\ Range(e.detected_patterns) = {rings[k].pattern_type : k \in own}
        /\ Distinct(e.detected_patterns)

\* C8: for every account in suspicious_accounts, suspicion_score is the
\* maximum risk_score over the rings whose member_accounts hold the account,
\* and detected_patterns is exactly the set of the pattern types of those
\* rings, without duplicates.
C8_ScoreIsMaxAndPatternsAreUnion ==
    /\ \A a \in Range(suspiciousMap.keys) :
          /\ suspiciousMap.val[a].account_id = a
          /\ AgreesWithRings(suspiciousMap.val[a], fraudRings)
    /\ result # None =>
          \A i \in 1..Len(result.suspicious_accounts) :
              AgreesWithRings(result.suspicious_accounts[i],
                              result.fraud_rings)

\* a result with an account of several patterns whose later ring scored
\* higher than an earlier one, and with one whose later ring scored lower
C8_Witness ==
    /\ result # None
    /\ \E i \in 1..Len(result.suspicious_accounts) :
          LET e == result.suspicious_accounts[i]
              own == RingsWith(result.fraud_rings, e.account_id)
          IN  /\ Len(e.detected_patterns) >= 2
              /\ \E k \in own : \E j \in own :
                    /\ k < j
                    /\ result.fraud_rings[k].risk_score
                          < result.fraud_rings[j].risk_score
    /\ \E i \in 1..Len(result.suspicious_accounts) :
          LET e == result.suspicious_accounts[i]
              own == RingsWith(result.fraud_rings, e.account_id)
          IN  /\ Len(e.detected_patterns) >= 2
              /\ \E k \in own : \E j \in own :
                    /\ k < j
                    /\ result.fraud_rings[k].risk_score
                          > result.fraud_rings[j].risk_score

\* the transfers of the batch that account a receives, by their place
IncomingOf(a) == {i \in 1..Len(batch) : batch[i].receiver_id = a}

OutgoingOf(a) == {i \in 1..Len(batch) : batch[i].sender_id = a}

TimeOf(i) == batch[i].timestamp.epoch

\* every transfer of account a carries a time that can be read
TimesKnown(a) ==
    \A i \in IncomingOf(a) \cup OutgoingOf(a) : batch[i].timestamp.text = "iso"

\* the incoming transfers of a in the 72 hours that end at time t
WindowEnding(a, t) ==
    {j \in IncomingOf(a) :
        TimeOf(j) >= t - 72 * 60 * 60 * 1000 /\ TimeOf(j) <= t}

\* the densest 72-hour window of incoming transfers of a: of the windows
\* ending at an incoming transfer, the earliest of those holding the most
Densest(a) ==
    LET inc == IncomingOf(a)
        size == [i \in 1..Len(batch) |->
                    IF i \in inc
                    THEN Cardinality({j \in inc :
                             /\ TimeOf(j) >= TimeOf(i) - 72 * 60 * 60 * 1000
                             /\ TimeOf(j) <= TimeOf(i)})
                    ELSE 0] \o <<>>
        most == CHOOSE n \in Range(size) : \A i \in inc : size[i] <= n
        full == {i \in inc : size[i] = most}
        first == CHOOSE i \in full : \A j \in full : TimeOf(i) <= TimeOf(j)
    IN  IF inc = {} THEN {} ELSE WindowEnding(a, TimeOf(first))

SendersIn(W) == {batch[j].sender_id : j \in W}

\* the distinct receivers of the outgoing transfers of a timed within 72
\* hours from the first transfer of the window W
ReceiversFrom(a, W) ==
    LET start == CHOOSE t \in {TimeOf(j) : j \in W} :
                     \A j \in W : t <= TimeOf(j)
    IN  {batch[j].receiver_id :
            j \in {j \in OutgoingOf(a) :
                      TimeOf(j) >= start
                          /\ TimeOf(j) <= start + 72 * 60 * 60 * 1000}}

\* the smurfing rings emitted for account a: those it is the first member of
SmurfingRingsFor(a) ==
    {k \in RingsOf(fraudRings, "smurfing") :
        fraudRings[k].member_accounts[1] = a}

\* C9: a smurfing ring is emitted for an account only if its densest 72-hour
\* window of incoming transactions holds at least 10 transactions from at
\* least 10 distinct senders; an account whose incoming transactions come
\* from at most 9 distinct senders never yields a smurfing ring.
C9_SmurfingNeedsTenSenders ==
    \A k \in RingsOf(fraudRings, "smurfing") :
        LET a == fraudRings[k].member_accounts[1]
        IN  TimesKnown(a) =>
                /\ Cardinality(Densest(a)) >= 10
                /\ Cardinality(SendersIn(Densest(a))) >= 10
                /\ Cardinality(SendersIn(IncomingOf(a))) > 9

\* a result with a smurfing ring, for a batch in which another account
\* receives 10 or more transfers within 72 hours from 9 senders or fewer
\* and sends to 10 or more receivers
C9_Witness ==
    /\ result # None
    /\ RingsOf(fraudRings, "smurfing") # {}
    /\ \E a \in Accounts :
          /\ Cardinality(Densest(a)) >= 10
          /\ Cardinality(SendersIn(IncomingOf(a))) <= 9
          /\ Cardinality(ReceiversFrom(a, Densest(a))) >= 10
          /\ SmurfingRingsFor(a) = {}

\* the risk of account a in units of 1/1200:
\* 0.5 * min(s/30, 1) + 0.3 * min((s + r)/40, 1) + 0.2 when r >= 10,
\* otherwise 0.5 * min(s/30, 1) + 0.15
RiskOf(a) ==
    LET s == Cardinality(SendersIn(Densest(a)))
        r == Cardinality(ReceiversFrom(a, Densest(a)))
    IN  IF r >= 10
        THEN ((600 * Min2(s, 30)) \div 30) + ((360 * Min2(s + r, 40)) \div 40)
                 + 240
        ELSE ((600 * Min2(s, 30)) \div 30) + 180

\* account a reaches the computation of the risk: it is no merchant or
\* payroll account, by its whole history or by its densest window alone,
\* and the window holds 10 transactions from 10 distinct senders
Candidate(a) ==
    LET W == Densest(a)
        BurstAmount == SumAmount([i \in 1..Len(batch) |->
                           IF i \in W THEN batch[i]
                           ELSE [batch[i] EXCEPT !.amount = 0]])
    IN  /\ TimesKnown(a)
        /\ ~IsMerchantOrPayroll(a)
        /\ Cardinality(IncomingOf(a)) >= 10
        /\ Cardinality(W) >= 10
        /\ Cardinality(SendersIn(W)) >= 10
        /\ ~(/\ Cardinality(SendersIn(W)) > 100
             /\ OutgoingOf(a) = {}
             /\ BurstAmount > 2000 * Cardinality(W))

\* C10: for an account that is not excluded, with s distinct senders in its
\* densest window and r distinct receivers among its outgoing transactions
\* timed in [windowStart, windowStart + 72h], a ring is emitted if and only
\* if the risk (0.5 min(s/30,1) + 0.3 min((s+r)/40,1) + 0.2 when r >= 10,
\* otherwise 0.5 min(s/30,1) + 0.15) is at least 0.65, and the risk_score of
\* the ring is risk * 100 rounded to one decimal, here in tenths.
C10_SmurfingRiskDecidesTheRing ==
    pc = "done" =>
        \A a \in Accounts :
            Candidate(a) =>
                /\ SmurfingRingsFor(a) # {} <=> 100 * RiskOf(a) >= 65 * 1200
                /\ Cardinality(SmurfingRingsFor(a)) <= 1
                /\ \A k \in SmurfingRingsFor(a) :
                      LET d == 6 * fraudRings[k].risk_score - 5 * RiskOf(a)
                      IN  d >= -3 /\ d <= 3

\* a result with the ring of an account with 20 senders and 15 receivers,
\* scored 79.6, for a batch in which another candidate stays below 0.65
C10_Witness ==
    /\ pc = "done"
    /\ \E a \in Accounts :
          /\ Candidate(a)
          /\ Cardinality(SendersIn(Densest(a))) = 20
          /\ Cardinality(ReceiversFrom(a, Densest(a))) = 15
          /\ \E k \in SmurfingRingsFor(a) : fraudRings[k].risk_score = 796
    /\ \E a \in Accounts :
          /\ Candidate(a)
          /\ 100 * RiskOf(a) < 65 * 1200
          /\ SmurfingRingsFor(a) = {}

\* C11: a full-smurfing aggregator (fan-out present) whose burst has 10
\* unique senders and 10 unique receivers is emitted as a ring with risk
\* score 65.3, and every emitted smurfing ring has a score between 65.0 and
\* 100.0 (scores in tenths).
C11_TenSendersTenReceiversScore ==
    pc = "done" =>
        /\ \A a \in Accounts :
              LET W == Densest(a)
              IN  (/\ Candidate(a)
                   /\ Cardinality(SendersIn(W)) = 10
                   /\ Cardinality(ReceiversFrom(a, W)) = 10)
                  => \E k \in SmurfingRingsFor(a) :
                         fraudRings[k].risk_score = 653
        /\ \A k \in RingsOf(fraudRings, "smurfing") :
              fraudRings[k].risk_score >= 650
                  /\ fraudRings[k].risk_score <= 1000

\* the hop times getTxTime gives for the chain m
HopTimes(m) ==
    <<getTxTime(accountTx, m[1], m[2]), getTxTime(accountTx, m[2], m[3]),
      getTxTime(accountTx, m[3], m[4])>>

StrictlyOrdered(t) ==
    /\ \A i \in 1..3 : t[i] # Null /\ ~IsNaN(t[i])
    /\ t[1] < t[2]
    /\ t[2] < t[3]

\* C12: every emitted shell ring [A,B,C,D] satisfies
\* getTxTime(A,B) < getTxTime(B,C) < getTxTime(C,D) strictly; a chain in
\* which two hop times are equal or out of order yields no shell ring.
C12_ShellRingsAreStrictlyOrdered ==
    \A k \in RingsOf(fraudRings, "shell") \cup
             {k \in 1..Len(pending) : pc = "shell"} :
        LET m == IF k \in RingsOf(fraudRings, "shell")
                 THEN fraudRings[k].member_accounts
                 ELSE pending[k].accounts
        IN  Len(m) = 4 /\ StrictlyOrdered(HopTimes(m))

\* a result with a shell ring, for a batch with a second chain of four
\* accounts, two hop times of which are equal, that is in no ring
C12_Witness ==
    /\ result # None
    /\ RingsOf(fraudRings, "shell") # {}
    /\ \E p \in PathsOfLen(4) :
          /\ HopTimes(p)[1] = HopTimes(p)[2]
          /\ HopTimes(p)[2] < HopTimes(p)[3]
          /\ \A k \in 1..Len(fraudRings) :
                fraudRings[k].member_accounts # p

\* the batch is one directed cycle over k distinct accounts, one transfer
\* for each edge
IsOneCycle(k) ==
    /\ Len(batch) = k
    /\ Cardinality(Accounts) = k
    /\ \E p \in PathsOfLen(k) : <<p[k], p[1]>> \in Transfers

\* C13: a batch of one directed cycle over k distinct accounts (k in 3..5,
\* one transaction per edge) yields exactly one ring, of pattern cycle with
\* risk_score 85.0; suspicious_accounts is exactly those k accounts, each
\* with suspicion_score 85.0 and detected_patterns [cycle]; no shell or
\* smurfing ring is emitted for them.
C13_OneCycleYieldsOneRing ==
    \A k \in 3..5 :
        (pc = "done" /\ IsOneCycle(k)) =>
            /\ Len(result.fraud_rings) = 1
            /\ result.fraud_rings[1].pattern_type = "cycle"
            /\ result.fraud_rings[1].risk_score = 850
            /\ Range(result.fraud_rings[1].member_accounts) = Accounts
            /\ Len(result.suspicious_accounts) = k
            /\ {result.suspicious_accounts[i].account_id : i \in 1..k}
                  = Accounts
            /\ \A i \in 1..k :
                  /\ result.suspicious_accounts[i].suspicion_score = 850
                  /\ result.suspicious_accounts[i].detected_patterns
                        = <<"cycle">>

\* the result for a cycle of 5 accounts whose transfers follow each other
\* an hour apart, with the accounts numbered against the cycle
C13_Witness ==
    /\ pc = "done"
    /\ IsOneCycle(5)
    /\ \A i \in 1..4 :
          /\ batch[i].receiver_id = batch[i + 1].sender_id
          /\ batch[i].sender_id > batch[i].receiver_id
          /\ batch[i].timestamp.epoch < batch[i + 1].timestamp.epoch
    /\ Len(result.fraud_rings) = 1

\* the place in the batch of the transfer from account x to account y
HopOf(x, y) ==
    CHOOSE i \in 1..Len(batch) :
        batch[i].sender_id = x /\ batch[i].receiver_id = y

\* the batch is exactly the three transfers of the chain p of four distinct
\* accounts, with equal positive amounts, strictly increasing timestamps
\* and the last less than 24 hours after the first
IsQuickChain(p) ==
    /\ Len(batch) = 3
    /\ Cardinality(Accounts) = 4
    /\ \A i \in 1..3 :
          /\ batch[i].timestamp.text = "iso"
          /\ batch[i].amount > 0
          /\ batch[i].amount = batch[1].amount
    /\ TimeOf(HopOf(p[1], p[2])) < TimeOf(HopOf(p[2], p[3]))
    /\ TimeOf(HopOf(p[2], p[3])) < TimeOf(HopOf(p[3], p[4]))
    /\ TimeOf(HopOf(p[3], p[4])) - TimeOf(HopOf(p[1], p[2]))
          < 24 * 60 * 60 * 1000

\* C14: a batch of exactly three transactions A->B, B->C, C->D over four
\* distinct accounts, with equal positive amounts, strictly increasing
\* timestamps and C->D less than 24 hours after A->B, yields exactly one
\* ring: pattern shell, member_accounts [A,B,C,D], risk_score 80.0.
C14_QuickChainYieldsOneShellRing ==
    \A p \in PathsOfLen(4) :
        (pc = "done" /\ IsQuickChain(p)) =>
            /\ Len(result.fraud_rings) = 1
            /\ result.fraud_rings[1].pattern_type = "shell"
            /\ result.fraud_rings[1].member_accounts = p
            /\ result.fraud_rings[1].risk_score = 800

\* the first ring of the result that holds account a, and the first place
\* of a in its member_accounts
FirstRing(a) ==
    CHOOSE k \in RingsWith(result.fraud_rings, a) :
        \A j \in RingsWith(result.fraud_rings, a) : k <= j

FirstPlace(a) ==
    LET m == result.fraud_rings[FirstRing(a)].member_accounts
    IN  CHOOSE i \in 1..Len(m) : m[i] = a /\ \A j \in 1..(i - 1) : m[j] # a

\* account a became a member of a ring before account b did
FlaggedBefore(a, b) ==
    \/ FirstRing(a) < FirstRing(b)
    \/ FirstRing(a) = FirstRing(b) /\ FirstPlace(a) < FirstPlace(b)

\* the place of account a in the order of insertion into suspiciousMap
InsertedAt(a) ==
    CHOOSE i \in 1..Len(suspiciousMap.keys) : suspiciousMap.keys[i] = a

\* C15: suspicious_accounts is ordered by non-increasing suspicion_score,
\* and accounts with equal scores appear in the order in which they were
\* first inserted into the suspicious map (order of first ring membership).
C15_SuspiciousAccountsAreSortedStably ==
    result # None =>
        /\ \A i \in 1..(Len(result.suspicious_accounts) - 1) :
              LET e == result.suspicious_accounts[i]
                  f == result.suspicious_accounts[i + 1]
              IN  \/ e.suspicion_score > f.suspicion_score
                  \/ /\ e.suspicion_score = f.suspicion_score
                     /\ InsertedAt(e.account_id) < InsertedAt(f.account_id)
                     /\ FlaggedBefore(e.account_id, f.account_id)

\* a result in which an account flagged later stands ahead of an account
\* flagged earlier with a lower score, and two accounts of one score follow
\* each other
C15_Witness ==
    /\ result # None
    /\ \E i \in 1..(Len(result.suspicious_accounts) - 1) :
          LET e == result.suspicious_accounts[i]
              f == result.suspicious_accounts[i + 1]
          IN  /\ e.suspicion_score > f.suspicion_score
              /\ FlaggedBefore(f.account_id, e.account_id)
    /\ \E i \in 1..(Len(result.suspicious_accounts) - 1) :
          result.suspicious_accounts[i].suspicion_score
              = result.suspicious_accounts[i + 1].suspicion_score

\* C16: if any transaction of the batch has a timestamp that cannot be
\* parsed into an epoch value, the analysis fails with an error and returns
\* no DetectionResult; no NaN time value is kept for a window or ordering
\* comparison.
C16_UnparsableTimestampFailsTheAnalysis ==
    (\E i \in 1..Len(batch) : batch[i].timestamp.text # "iso") =>
        /\ result = None
        /\ \A k \in 1..Len(accountTx.keys) :
              \A j \in 1..Len(accountTx.val[accountTx.keys[k]]) :
                  ~IsNaN(accountTx.val[accountTx.keys[k]][j]._time)

\* the registry after addRing for the rings found from place i on
RECURSIVE RegisterAll(_, _, _, _, _)
RegisterAll(at, reg, found, pattern, i) ==
    IF i > Len(found) THEN reg
    ELSE RegisterAll(at,
                     addRing(at, reg, found[i].accounts, pattern,
                             found[i].risk),
                     found, pattern, i + 1)

\* what analyze() returns for the batch b on an engine running alone, but
\* for the processing time
Alone(b) ==
    LET g == buildGraph(b)
        cycles == detectCycles(g.adjacency, 3, 5)
        r0 == [suspiciousMap |-> EmptyMap, fraudRings |-> <<>>,
               ringCounter |-> 1]
        r1 == RegisterAll(g.accountTx, r0,
                          [i \in 1..Len(cycles) |->
                              [accounts |-> cycles[i], risk |-> 1020]],
                          "cycle", 1)
        members == UNION {Range(cycles[i]) : i \in 1..Len(cycles)}
        r2 == RegisterAll(g.accountTx, r1, detectSmurfing(g.accountTx),
                          "smurfing", 1)
        r3 == RegisterAll(g.accountTx, r2,
                          detectShell(g.adjacency, g.accountTx, members),
                          "shell", 1)
    IN  BuildResult(g.transactions, r3.suspiciousMap, r3.fraudRings, 0)

\* two results agree in all but the processing time
SameButTime(r, q) ==
    /\ r.fraud_rings = q.fraud_rings
    /\ r.suspicious_accounts = q.suspicious_accounts
    /\ [r.summary EXCEPT !.processing_time_seconds = 0]
          = [q.summary EXCEPT !.processing_time_seconds = 0]

\* C17: two analyses of the same batch, each on a freshly built engine,
\* return identical fraud_rings (ids, member order, pattern, score) and
\* identical suspicious_accounts; the results can differ only in
\* summary.processing_time_seconds.
C17_SameBatchSameResult ==
    (/\ other # None
     /\ other.batch = batch
     /\ result # None
     /\ other.result # None) => SameButTime(result, other.result)

\* two results for one batch with its cycle, smurfing and shell ring, one
\* analysis having registered its rings while the other was under way, that
\* differ in the processing time
C17_Witness ==
    /\ other # None
    /\ other.batch = batch
    /\ result # None
    /\ other.result # None
    /\ {result.fraud_rings[k].pattern_type : k \in 1..Len(result.fraud_rings)}
          = {"cycle", "smurfing", "shell"}
    /\ result.summary.processing_time_seconds
          # other.result.summary.processing_time_seconds

\* C18: when two analyses of different batches run with their steps
\* interleaved, each on its own DetectionEngine, each returns exactly the
\* rings, ring_ids and scores it returns when run alone: the ring counter
\* and graph index of one analysis are never read or advanced by the other.
C18_InterleavedAnalysesDoNotInterfere ==
    other # None =>
        /\ result # None => SameButTime(result, Alone(batch))
        /\ other.result # None => SameButTime(other.result, Alone(other.batch))
        /\ pc \in {"new", "constructed"} => ringCounter = 1
        /\ other.pc \in {"new", "constructed"} => other.ringCounter = 1

\* two analyses of different batches, both under way with rings registered
C18_Witness ==
    /\ other # None
    /\ other.batch # batch
    /\ pc = "smurfing"
    /\ other.pc = "cycles"
    /\ ringCounter > 1
    /\ other.ringCounter > 1

\* the transfers of the batch from account x to account y, by their place
TransfersOf(x, y) ==
    {i \in 1..Len(batch) : batch[i].sender_id = x /\ batch[i].receiver_id = y}

\* the time of the earliest transfer from x to y
EarliestTime(x, y) ==
    TimeOf(CHOOSE i \in TransfersOf(x, y) :
               \A j \in TransfersOf(x, y) : TimeOf(i) <= TimeOf(j))

\* C19: when several transactions exist for the same ordered account pair
\* (from, to), the temporal-order check of the shell detector uses the
\* timestamp of the earliest of them: the hops of an emitted shell ring are
\* strictly ordered by their earliest times.
C19_ShellOrderUsesEarliestTransfer ==
    \A k \in RingsOf(fraudRings, "shell") :
        LET m == fraudRings[k].member_accounts
        IN  /\ EarliestTime(m[1], m[2]) < EarliestTime(m[2], m[3])
            /\ EarliestTime(m[2], m[3]) < EarliestTime(m[3], m[4])

\* the time of the transfer from x to y that comes first in the batch, null
\* when there is none
FirstListedTime(x, y) ==
    IF TransfersOf(x, y) = {} THEN Null
    ELSE DateGetTime(batch[CHOOSE i \in TransfersOf(x, y) :
                               \A j \in TransfersOf(x, y) : i <= j].timestamp)

\* b is a of another order: the same transfers with the same timestamps
IsReordered(a, b) ==
    /\ Len(a) = Len(b)
    /\ \E p \in Orders(Len(a)) :
          \A i \in 1..Len(a) :
              [b[i] EXCEPT !.transaction_id = 0]
                  = [a[p[i]] EXCEPT !.transaction_id = 0]

\* C20: getTxTime(from, to) returns the timestamp of the transaction
\* from -> to that comes first in batch order (null when there is none), so
\* with repeated transfers between a pair the shell verdict for a chain can
\* change when the batch is reordered without changing any timestamp.
C20_GetTxTimeIsFirstInBatchOrder ==
    /\ ret # <<>> /\ other # None => ret[1] = FirstListedTime(arg[1], arg[2])
    /\ pc = "shell" =>
          \A k \in 1..Len(pending) :
              LET m == pending[k].accounts
              IN  /\ FirstListedTime(m[1], m[2]) < FirstListedTime(m[2], m[3])
                  /\ FirstListedTime(m[2], m[3]) < FirstListedTime(m[3], m[4])

\* getTxTime returned a time that is not the earliest of its pair, for a
\* batch that yields a shell ring while the same transfers in another order,
\* analysed by the second engine, yield none
C20_Witness ==
    /\ other # None
    /\ ret # <<>>
    /\ TransfersOf(arg[1], arg[2]) # {}
    /\ ret[1] > EarliestTime(arg[1], arg[2])
    /\ result # None
    /\ other.result # None
    /\ other.batch # batch
    /\ IsReordered(batch, other.batch)
    /\ RingsOf(result.fraud_rings, "shell") # {}
    /\ other.result.fraud_rings = <<>>
\* the rings of a list that hold the account of entry e with the score of e
TopRings(e, rings) ==
    {k \in RingsWith(rings, e.account_id) :
        rings[k].risk_score = e.suspicion_score}

\* the ring_id of entry e is the id of the first of those rings
NamesFirstTopRing(e, rings) ==
    LET top == TopRings(e, rings)
    IN  /\ top # {}
        /\ \E k \in top :
              /\ \A j \in top : k <= j
              /\ rings[k].ring_id = e.ring_id
        /\ \A k \in 1..Len(rings) :
              rings[k].ring_id = e.ring_id => k \in top

\* C21: for every account in suspicious_accounts, ring_id names a ring of
\* fraud_rings that holds the account and whose risk_score is the account's
\* suspicion_score; of several rings of the account with the highest score
\* it is the one registered first.
C21_RingIdNamesTheFirstHighestRing ==
    /\ \A a \in Range(suspiciousMap.keys) :
          NamesFirstTopRing(suspiciousMap.val[a], fraudRings)
    /\ result # None =>
          \A i \in 1..Len(result.suspicious_accounts) :
              NamesFirstTopRing(result.suspicious_accounts[i],
                                result.fraud_rings)

\* a result with an account in two rings of its highest score, and with an
\* account whose ring_id names a ring registered after another of its rings
C21_Witness ==
    /\ result # None
    /\ \E i \in 1..Len(result.suspicious_accounts) :
          Cardinality(TopRings(result.suspicious_accounts[i],
                               result.fraud_rings)) >= 2
    /\ \E i \in 1..Len(result.suspicious_accounts) :
          LET e == result.suspicious_accounts[i]
          IN  \E k \in RingsWith(result.fraud_rings, e.account_id) :
                 \E j \in TopRings(e, result.fraud_rings) :
                    /\ k < j
                    /\ result.fraud_rings[j].ring_id = e.ring_id

\* the scan of detectSmurfing is reached for account a
IsScanned(a) ==
    /\ Len(Incoming(TxsOf(accountTx, a), a)) >= MIN_UNIQUE
    /\ ~isMerchant(accountTx, a, Undefined, Undefined)

\* the incoming transactions of account a as the scan reads them
Scanned(a) == SortByTime(Incoming(TxsOf(accountTx, a), a)) \o <<>>

\* every time of the list is a number
TimesRead(inc) == \A k \in 1..Len(inc) : ~IsNaN(inc[k]._time)

\* the places of the list inc timed within the 72 hours ending at place r
WindowAt(inc, r) ==
    {k \in 1..Len(inc) :
        /\ inc[k]._time >= inc[r]._time - 72 * 60 * 60 * 1000
        /\ inc[k]._time <= inc[r]._time}

\* best is the window of a right edge r of inc that holds the most, and
\* every right edge timed earlier has a window that holds less
IsEarliestDensest(inc, best) ==
    LET size == [r \in 1..Len(inc) |-> Cardinality(WindowAt(inc, r))] \o <<>>
    IN  \E r \in 1..Len(inc) :
           LET l == r + 1 - Len(best)
           IN  /\ l >= 1
               /\ WindowAt(inc, r) = l..r
               /\ best = SubSeq(inc, l, r)
               /\ \A q \in 1..Len(inc) :
                     /\ size[q] <= size[r]
                     /\ inc[q]._time < inc[r]._time => size[q] < size[r]

\* C22: for each account the scan of detectSmurfing is run for, the window
\* chosen is, among the windows of the incoming transactions timed in
\* [t_r - 72h, t_r] over every right edge r, one that holds the most, and
\* of those the one with the earliest right edge; the transactions of the
\* chosen window lie within 72 hours of each other.
C22_DensestWindowIsEarliestOfTheLargest ==
    pc = "smurfing" =>
        \A a \in Range(accountTx.keys) :
            IsScanned(a) =>
                LET inc == Scanned(a)
                    best == DensestWindow(inc) \o <<>>
                IN  TimesRead(inc) =>
                        /\ IsEarliestDensest(inc, best)
                        /\ \A i \in 1..Len(best) :
                              best[Len(best)]._time - best[i]._time
                                  <= 72 * 60 * 60 * 1000
                        /\ \A i \in 1..(Len(best) - 1) :
                              best[i]._time <= best[i + 1]._time

\* an index with an account whose incoming transactions are listed out of
\* the order of their times, some at one time, and have two windows that
\* hold the most, the chosen one a part of the list that ends before the
\* last transaction
C22_Witness ==
    /\ pc = "smurfing"
    /\ \E a \in Range(accountTx.keys) :
          /\ IsScanned(a)
          /\ LET inc == Scanned(a)
                 best == DensestWindow(inc) \o <<>>
             IN  /\ TimesRead(inc)
                 /\ inc # Incoming(TxsOf(accountTx, a), a)
                 /\ \E k \in 1..(Len(inc) - 1) : inc[k]._time = inc[k + 1]._time
                 /\ Len(best) < Len(inc)
                 /\ best[Len(best)]._time < inc[Len(inc)]._time
                 /\ \E r \in 1..Len(inc) :
                       /\ inc[r]._time > best[Len(best)]._time
                       /\ Cardinality(WindowAt(inc, r)) = Len(best)

\* account a is tested for fan-in only: it is no merchant or payroll
\* account, by its whole history or by its densest window alone, and fewer
\* than 10 distinct receivers are paid by it within 72 hours from the start
\* of the window
FanInOnly(a) ==
    LET W == Densest(a)
        BurstAmount == SumAmount([i \in 1..Len(batch) |->
                           IF i \in W THEN batch[i]
                           ELSE [batch[i] EXCEPT !.amount = 0]])
    IN  /\ TimesKnown(a)
        /\ ~IsMerchantOrPayroll(a)
        /\ IncomingOf(a) # {}
        /\ ~(/\ Cardinality(SendersIn(W)) > 100
             /\ OutgoingOf(a) = {}
             /\ BurstAmount > 2000 * Cardinality(W))
        /\ Cardinality(ReceiversFrom(a, W)) < 10

\* C23: an account that is no merchant or payroll account and has no
\* fan-out (fewer than 10 distinct receivers in [windowStart, windowStart +
\* 72h]) yields a smurfing ring if and only if its densest window has at
\* least 30 distinct senders, and the risk_score of that ring is 65.0 (650
\* tenths); with 10 to 29 distinct senders no ring is emitted.
C23_FanInOnlyNeedsThirtySenders ==
    pc = "done" =>
        \A a \in Accounts :
            FanInOnly(a) =>
                /\ SmurfingRingsFor(a) # {}
                      <=> Cardinality(SendersIn(Densest(a))) >= 30
                /\ Cardinality(SmurfingRingsFor(a)) <= 1
                /\ \A k \in SmurfingRingsFor(a) :
                      fraudRings[k].risk_score = 650

\* a result with the ring of an account of 30 senders and 9 receivers,
\* scored 65.0, its members the account and the senders
C23_Witness ==
    /\ pc = "done"
    /\ \E a \in Accounts :
          /\ FanInOnly(a)
          /\ Cardinality(SendersIn(Densest(a))) = 30
          /\ Cardinality(ReceiversFrom(a, Densest(a))) = 9
          /\ \E k \in SmurfingRingsFor(a) :
                /\ fraudRings[k].risk_score = 650
                /\ Range(fraudRings[k].member_accounts)
                      = {a} \cup SendersIn(Densest(a))

\* account x has 2 or 3 entries in the transaction index, one for each
\* transfer it sends and one for each it receives; over these entries it
\* has received and sent a non-zero total, and the smaller of
\* sent / received and received / sent is 0.6 or more
PassesThrough(x) ==
    LET txs == TxsOf(accountTx, x)
        totalIn == SumAmount(Incoming(txs, x))
        totalOut == SumAmount(Outgoing(txs, x))
    IN  /\ Len(txs) \in {2, 3}
        /\ Len(txs) = Len(Incoming(batch, x)) + Len(Outgoing(batch, x))
        /\ totalIn # 0
        /\ totalOut # 0
        /\ 10 * totalOut >= 6 * totalIn
        /\ 10 * totalIn >= 6 * totalOut

\* C24: in every emitted shell ring [A, B, C, D], B and C each have 2 or 3
\* entries in the per-account transaction index, a non-zero total received
\* amount, a non-zero total sent amount, and
\* min(totalOut/totalIn, totalIn/totalOut) >= 0.6.
C24_ShellIntermediariesPassThrough ==
    /\ \A k \in RingsOf(fraudRings, "shell") :
          /\ PassesThrough(fraudRings[k].member_accounts[2])
          /\ PassesThrough(fraudRings[k].member_accounts[3])
    /\ pc = "shell" =>
          \A i \in 1..Len(pending) :
              /\ PassesThrough(pending[i].accounts[2])
              /\ PassesThrough(pending[i].accounts[3])

\* a result with a shell ring in which B has 3 entries and sends 0.6 of
\* what it received
C24_Witness ==
    /\ result # None
    /\ \E k \in RingsOf(fraudRings, "shell") :
          LET b == fraudRings[k].member_accounts[2]
          IN  /\ Len(accountTx.val[b]) = 3
              /\ 10 * SumAmount(Outgoing(batch, b))
                    = 6 * SumAmount(Incoming(batch, b))

\* the time from the hop A -> B to the hop C -> D of the chain m, by the
\* first transfer listed for each pair
SpreadOf(m) == FirstListedTime(m[3], m[4]) - FirstListedTime(m[1], m[2])

\* C25: every shell ring has risk_score 80.0 when getTxTime(C,D) -
\* getTxTime(A,B) is under 24 hours and 62.5 otherwise, a spread of exactly
\* 24 hours giving 62.5 (scores in tenths); the rejection of a risk below
\* 0.6 in detectShell never discards a chain: the risk of every chain that
\* is ordered in time is 0.8 or 0.625 (960 or 750 of 1200).
C25_ShellScoreIsEightyOrSixtyTwoAndAHalf ==
    /\ \A k \in RingsOf(fraudRings, "shell") :
          LET m == fraudRings[k].member_accounts
          IN  fraudRings[k].risk_score
                  = IF SpreadOf(m) < 24 * 60 * 60 * 1000 THEN 800 ELSE 625
    /\ pc = "shell" =>
          /\ \A i \in 1..Len(pending) :
                pending[i].risk
                    = IF SpreadOf(pending[i].accounts) < 24 * 60 * 60 * 1000
                      THEN 960 ELSE 750
          /\ \A p \in PathsOfLen(4) :
                isTemporalChain(accountTx, p[1], p[2], p[3], p[4]) =>
                    /\ shellRisk(accountTx, p[1], p[2], p[3], p[4])
                          \in {960, 750}
                    /\ 10 * shellRisk(accountTx, p[1], p[2], p[3], p[4])
                          >= 6 * RiskDen

\* a result with a shell ring whose last hop is exactly 24 hours after its
\* first, scored 62.5
C25_Witness ==
    /\ result # None
    /\ \E k \in RingsOf(fraudRings, "shell") :
          /\ SpreadOf(fraudRings[k].member_accounts) = 24 * 60 * 60 * 1000
          /\ fraudRings[k].risk_score = 625

\* C26: constructing a DetectionEngine and running analyze() leaves every
\* record of the caller's list unchanged: the list keeps its length and
\* order, no field is added to a record and no field of a record is
\* modified.
C26_InputRecordsAreLeftUnchanged ==
    /\ Len(transactions) = Len(batch)
    /\ \A i \in 1..Len(batch) :
          /\ DOMAIN transactions[i] = DOMAIN batch[i]
          /\ \A f \in DOMAIN batch[i] : transactions[i][f] = batch[i][f]

\* C27: the member_accounts of every shell ring are four pairwise distinct
\* accounts A, B, C, D, also for a batch that holds a transfer of an
\* account to itself.
C27_ShellRingsHaveFourDistinctAccounts ==
    \A k \in RingsOf(fraudRings, "shell") :
        /\ Len(fraudRings[k].member_accounts) = 4
        /\ Distinct(fraudRings[k].member_accounts)

\* the chain p of four distinct accounts passes the tests detectShell makes
\* before it looks at the times: A is no merchant or payroll account, none
\* of A, B, C is on a cycle ring, B and C are shell intermediaries and
\* no transfer leads back from D to A
PassesGuards(p) ==
    /\ ~isMerchant(accountTx, p[1], Undefined, Undefined)
    /\ \A i \in 1..3 : p[i] \notin cycleAccounts
    /\ isShellIntermediate(accountTx, p[2])
    /\ isShellIntermediate(accountTx, p[3])
    /\ <<p[4], p[1]>> \notin Transfers

\* C28: for a chain A -> B -> C -> D that passes every structural guard of
\* detectShell, a shell ring is emitted if and only if
\* getTxTime(A,B) < getTxTime(B,C) < getTxTime(C,D), for every value of the
\* epoch times, 0 included.
C28_OrderedChainsAreEmitted ==
    pc = "done" =>
        \A p \in PathsOfLen(4) :
            (PassesGuards(p) /\ \A i \in 1..3 : ~IsNaN(HopTimes(p)[i])) =>
                ((\E k \in RingsOf(fraudRings, "shell") :
                      fraudRings[k].member_accounts = p)
                    <=> (/\ HopTimes(p)[1] < HopTimes(p)[2]
                         /\ HopTimes(p)[2] < HopTimes(p)[3]))

\* the place in the batch of the first transfer from x to y, and of the
\* first transfer x sends
FirstHop(x, y) ==
    CHOOSE i \in TransfersOf(x, y) : \A j \in TransfersOf(x, y) : i <= j

FirstSent(x) ==
    CHOOSE i \in OutgoingOf(x) : \A j \in OutgoingOf(x) : i <= j

\* the search meets the closed path p before the closed path q: it starts
\* from the accounts in the order of their first outgoing transfer and
\* walks the neighbours of an account in the order of the first transfer
\* to each, the start closing the path being one of them
FoundBefore(p, q) ==
    LET pp == Append(p, p[1])
        qq == Append(q, q[1])
        d  == CHOOSE i \in 1..Len(pp) :
                  /\ i > Len(qq) \/ pp[i] # qq[i]
                  /\ \A j \in 1..(i - 1) : pp[j] = qq[j]
    IN  IF p[1] # q[1] THEN FirstSent(p[1]) < FirstSent(q[1])
        ELSE /\ d <= Len(qq)
             /\ FirstHop(pp[d - 1], pp[d]) < FirstHop(qq[d - 1], qq[d])

\* C29: when the graph holds both orientations of a cycle over the same 3
\* to 5 accounts, the two directed cycles yield one cycle ring, and its
\* member order is the closed path the search meets first among the
\* rotations of the two orientations.
C29_BothOrientationsYieldTheFirstFound ==
    result # None =>
        \A c \in SimpleCycles :
            Reverse(c) \in SimpleCycles =>
                LET both == RotationsAndReversals(c) \cap SimpleCycles
                    own == {k \in RingsOf(result.fraud_rings, "cycle") :
                               result.fraud_rings[k].member_accounts
                                   \in RotationsAndReversals(c)}
                IN  /\ Cardinality(own) = 1
                    /\ \A k \in own :
                          LET m == result.fraud_rings[k].member_accounts
                          IN  /\ m \in both
                              /\ \A q \in both \ {m} : FoundBefore(m, q)

\* a result for a graph with both orientations of a cycle of 4 or 5
\* accounts whose ring is not the smallest rotation in the order of the
\* account ids
C29_Witness ==
    /\ result # None
    /\ \E c \in SimpleCycles :
          /\ Len(c) >= 4
          /\ Reverse(c) \in SimpleCycles
          /\ \E k \in RingsOf(result.fraud_rings, "cycle") :
                LET m == result.fraud_rings[k].member_accounts
                IN  /\ m \in RotationsAndReversals(c)
                    /\ \E q \in RotationsAndReversals(c) :
                          q # m /\ LexLe(q, m)

(***************************************************************************)
(* THE DASHBOARD: App, its handlers and the /api/analyze request           *)
(***************************************************************************)
\* the parsed CSV files a user uploads, a file with a header line only among
\* them
AppBatches ==
    {<<>>,
     Numbered(CycleTxs(3, "up", FALSE)),
     Numbered(<<Tx(1, 2, 100, HOUR_MS), Tx(2, 3, 100, 2 * HOUR_MS),
                Tx(3, 4, 100, 3 * HOUR_MS)>>)}

\* the DetectionResult the route handler sends for a request body: a new
\* DetectionEngine for the transactions of the body and its analyze()
analyzeRoute(data) == Alone(data)

\* the upload area is rendered: no analysis is running and no transactions
\* are held
FileUploadShown == ~app.isAnalyzing /\ app.transactions = <<>>

\* the panels of the dashboard are rendered
DashboardShown == ~app.isAnalyzing /\ app.transactions # <<>>

\* the accounts drawn as nodes of the graph view
GraphNodes ==
    {app.transactions[i].sender_id : i \in 1..Len(app.transactions)}
        \cup {app.transactions[i].receiver_id : i \in 1..Len(app.transactions)}

\* the accounts listed as high-risk targets: the first ten suspicious accounts
\* of detectionResult
HighRiskTargets ==
    IF app.detectionResult = None THEN {}
    ELSE LET sa == app.detectionResult.suspicious_accounts
         IN  {sa[i].account_id : i \in {j \in 1..Len(sa) : j <= 10}}

\* the useState values of App after the first render, no request in flight
InitApp ==
    /\ batch = <<>>
    /\ transactions = batch
    /\ adjacency = EmptyMap
    /\ accountTx = EmptyMap
    /\ pc = "new"
    /\ suspiciousMap = EmptyMap
    /\ fraudRings = <<>>
    /\ ringCounter = 1
    /\ cycleAccounts = {}
    /\ pending = <<>>
    /\ result = None
    /\ arg = <<>>
    /\ ret = <<>>
    /\ other = None
    /\ app = [transactions |-> <<>>, detectionResult |-> None,
              selectedNode |-> None, activeTab |-> "graph",
              graphFilter |-> "all", isAnalyzing |-> FALSE,
              requests |-> <<>>]

\* handleDataLoaded(data) up to its await: the upload area hands over the
\* parsed file, the transactions are held, the spinner is shown and the
\* request is sent
HandleDataLoaded(data) ==
    /\ FileUploadShown
    /\ app' = [app EXCEPT !.transactions = data, !.isAnalyzing = TRUE,
                          !.requests = Append(@, data)]
    /\ UNCHANGED <<engine, arg, ret, other>>

\* handleDataLoaded after its await, the response being ok: the result of the
\* request is stored and the finally block clears isAnalyzing
ResponseArrives(i) ==
    /\ i \in 1..Len(app.requests)
    /\ app' = [app EXCEPT !.detectionResult = analyzeRoute(app.requests[i]),
                          !.isAnalyzing = FALSE,
                          !.requests = Pick(@, (1..Len(@)) \ {i}, 1)]
    /\ UNCHANGED <<engine, arg, ret, other>>

\* handleDataLoaded after its await, fetch having failed or the response not
\* being ok: the catch block alerts and the finally block clears isAnalyzing
ResponseFails(i) ==
    /\ i \in 1..Len(app.requests)
    /\ app' = [app EXCEPT !.isAnalyzing = FALSE,
                          !.requests = Pick(@, (1..Len(@)) \ {i}, 1)]
    /\ UNCHANGED <<engine, arg, ret, other>>

\* handleReset, called by the Reset button of the header, which is rendered
\* while transactions are held
HandleReset ==
    /\ app.transactions # <<>>
    /\ app' = [app EXCEPT !.transactions = <<>>, !.detectionResult = None,
                          !.selectedNode = None, !.graphFilter = "all"]
    /\ UNCHANGED <<engine, arg, ret, other>>

\* the two tab buttons of the dashboard
SetActiveTab(t) ==
    /\ DashboardShown
    /\ app' = [app EXCEPT !.activeTab = t]
    /\ UNCHANGED <<engine, arg, ret, other>>

\* the filter buttons above the graph view
SetGraphFilter(f) ==
    /\ DashboardShown
    /\ app.activeTab = "graph"
    /\ app' = [app EXCEPT !.graphFilter = f]
    /\ UNCHANGED <<engine, arg, ret, other>>

\* a click on a node of the graph view or on a high-risk target
SetSelectedNode(n) ==
    /\ DashboardShown
    /\ \/ app.activeTab = "graph" /\ n \in GraphNodes
       \/ n \in HighRiskTargets
    /\ app' = [app EXCEPT !.selectedNode = n]
    /\ UNCHANGED <<engine, arg, ret, other>>

NextApp ==
    \/ \E data \in AppBatches : HandleDataLoaded(data)
    \/ \E i \in 1..Len(app.requests) : ResponseArrives(i)
    \/ \E i \in 1..Len(app.requests) : ResponseFails(i)
    \/ HandleReset
    \/ \E t \in {"graph", "table"} : SetActiveTab(t)
    \/ \E f \in {"all", "cycle", "smurfing", "shell"} : SetGraphFilter(f)
    \/ \E n \in GraphNodes \cup HighRiskTargets : SetSelectedNode(n)

SpecApp == InitApp /\ [][NextApp]_vars

\* C30: after any interleaving of uploads, resets and responses a non-null
\* detectionResult is the result computed for the transactions currently
\* held, detectionResult is null whenever transactions is empty, and
\* isAnalyzing is false once no request is pending
C30_ResultBelongsToHeldTransactions ==
    /\ app.detectionResult # None
          => app.detectionResult = analyzeRoute(app.transactions)
    /\ app.transactions = <<>> => app.detectionResult = None
    /\ app.requests = <<>> => ~app.isAnalyzing

=============================================================================
